---- MODULE Spec2Model ----
(***************************************************************************)
(* A model of the crawl/scan pipeline of the AODA accessibility checker:   *)
(* URL normalisation and filtering (src/core/crawler.py), the breadth-     *)
(* first crawl loop and the per-page scan, the violation aggregator        *)
(* (src/utils/custom_checker.py), the result models (src/models) and the   *)
(* check-configuration repository (src/database/check_repository.py).      *)
(*                                                                         *)
(* A URL is a sequence of tokens.  Each token stands for a run of          *)
(* characters that the code never looks inside ("https", "ex", "a") or for *)
(* one delimiter character (":", "/", "?", "#").  urlparse, the f-string   *)
(* that rebuilds the normalised URL, rstrip, startswith and replace are    *)
(* modelled on these token sequences.                                      *)
(***************************************************************************)
EXTENDS Integers, Sequences, FiniteSets, TLC

VARIABLES
    \* ---- URL normaliser, exercised as a pure function --------------------
    n_pc,            \* "in" | "once" | "twice"
    n_url,           \* the URL handed to _normalize_url
    n_url2,          \* a second URL, a scheme/query/fragment variant of n_url
    n_out,           \* _normalize_url(n_url)
    n_out2,          \* _normalize_url(n_url2)
    n_again          \* _normalize_url(n_out)

VARIABLES
    \* ---- ViolationAggregator, exercised on its own -----------------------
    agg_pc,          \* "in" | "done"
    check_configs,   \* ViolationAggregator.check_configs: check id -> configuration
    axe_violations,  \* the list of audit-engine violations handed in (mutable dicts)
    custom_violations, \* the list of heuristic violations handed in (mutable dicts)
    axe_in,          \* the audit-engine violations as they were before the call
    custom_in,       \* the heuristic violations as they were before the call
    all_violations   \* the list aggregate_violations returns

VARIABLES
    \* ---- CheckConfigRepository and its two tables -----------------------
    cfg_pc,          \* "idle" | "open": whether the repository is exercised
    check_table,     \* check_configurations: check_id -> row
    user_check_table, \* user_check_configurations: the set of override rows
    cfg_op,          \* the repository method called last
    cfg_user,        \* the user_id get_user_checks was called with (0: another call)
    cfg_ret          \* the list get_user_checks returned (empty: another call)

VARIABLES
    \* ---- AccessibilityCrawler ------------------------------------------
    c_pc,            \* "idle" | "constructed" | "running" | "returned" | "raised"
                     \* | "stored" | "handled" (run_scan after crawl)
    start_url,       \* self.start_url
    max_pages,       \* self.max_pages
    max_depth,       \* self.max_depth
    same_domain_only, \* self.same_domain_only
    restrict_to_path, \* self.restrict_to_path
    domain,          \* self.domain
    start_path,      \* self.start_path
    visited_urls,    \* self.visited_urls
    to_visit,        \* self.to_visit: the queue of (url, depth)
    scan_result,     \* self.scan_result
    scan_depths,     \* history: the depth each PageResult's URL was dequeued at
    rediscovered,    \* history: a link to a visited or queued URL was extracted
    dropped,         \* history: _should_crawl rejected a link of a scanned page
    browser_usable,  \* the browser can still open a page (browser.new_page)
    fetched          \* history: what happened to each PageResult's page (a kind
                     \* of PageBehaviours)

VARIABLES
    \* ---- _scan_page's screenshot capture, exercised page by page ---------
    shot_pc,         \* "idle" | "ready" | "violations" | "nodes" | "page_done"
                     \* | "page_error"
    enable_screenshots, \* self.enable_screenshots
    max_screenshots_per_page, \* settings.max_screenshots_per_page
    screenshot_count, \* the local screenshot_count of _scan_page
    shot_pages,      \* how many pages _scan_page was called for
    shot_violations, \* how many violations of the page the outer loop has begun
    shot_nodes,      \* how many nodes of the violation the inner loop has done
    shot_out,        \* for each node_data of the page so far: has it a 'screenshot'
    shot_capturable, \* history: the nodes of the page whose capture could succeed
    shot_prev,       \* history: the screenshots stored on the page before this one
    shot_failed      \* history: a capture raised (or found no element) on this page

VARIABLES
    \* ---- CustomChecker.check_spacer_images, exercised on its own ---------
    sp_pc,           \* "idle" | "in" | "done"
    images,          \* soup.find_all('img'): the page's images in document order
    spacer_violations \* violations: the list check_spacer_images returns

VARIABLES
    \* ---- run_batch_scans and the batch endpoints, one batch ---------------
    b_pc,            \* "idle" | "running" (the tasks are gathered) | "finished"
    b_task,          \* for each URL of the batch, where its scan_single_url is:
                     \* "created" | "waiting" (at the semaphore) | "fetching" (a
                     \* page fetch of its crawl is in flight) | "between" (the
                     \* crawl is between two fetches) | "saving" | "completed"
                     \* | "failed" | "skipped"
    b_left,          \* for each URL, the pages its crawl has still to fetch
    semaphore,       \* the value of asyncio.Semaphore(max_concurrent)
    batch_scan_status, \* batch_scan_status[batch_id]
    b_response,      \* what the last call of an endpoint answered
    b_late_fetch,    \* history: a page fetch was started after the cancellation
    b_cancel_accepted \* history: cancel_batch_scan answered 200

VARIABLES
    \* ---- URLDiscoverer, one call of discover ------------------------------
    d_pc,            \* "idle" | "running" | "returned" | "raised"
    d_request,       \* start_url, max_depth, max_pages, same_domain_only,
                     \* restrict_to_path as given to __init__
    d_to_visit,      \* self.to_visit
    d_visited_urls,  \* self.visited_urls
    discovered_urls, \* self.discovered_urls
    d_result         \* the dict discover returned: discovered_urls (as a set,
                     \* their sorted order left out) and total_discovered

normVars == <<n_pc, n_url, n_url2, n_out, n_out2, n_again>>

aggVars == <<agg_pc, check_configs, axe_violations, custom_violations,
             axe_in, custom_in, all_violations>>

cfgVars == <<cfg_pc, check_table, user_check_table, cfg_op, cfg_user, cfg_ret>>

crawlVars == <<c_pc, start_url, max_pages, max_depth, same_domain_only, restrict_to_path,
               domain, start_path, visited_urls, to_visit, scan_result,
               scan_depths, rediscovered,
                   dropped, browser_usable, fetched>>

shotVars == <<shot_pc, enable_screenshots, max_screenshots_per_page, screenshot_count,
              shot_pages, shot_violations, shot_nodes, shot_out, shot_capturable,
              shot_prev, shot_failed>>

spacerVars == <<sp_pc, images, spacer_violations>>

batchVars == <<b_pc, b_task, b_left, semaphore, batch_scan_status, b_response,
               b_late_fetch, b_cancel_accepted>>

VARIABLES
    \* ---- SyncAccessibilityCrawler, one crawl ------------------------------
    s_pc,            \* "idle" | "running" | "returned" | "raised"
    s_request,       \* the ScanRequest given to __init__
    s_to_visit,      \* self.to_visit
    s_visited_urls,  \* self.visited_urls
    s_page_results   \* self.scan_result.page_results: url and error of each

discoverVars == <<d_pc, d_request, d_to_visit, d_visited_urls, discovered_urls,
                  d_result>>

syncVars == <<s_pc, s_request, s_to_visit, s_visited_urls, s_page_results>>

serviceVars == <<batchVars, discoverVars, syncVars>>

pageVars == <<shotVars, spacerVars, serviceVars>>

vars == <<normVars, aggVars, cfgVars, crawlVars, pageVars>>

-----------------------------------------------------------------------------
(* Bounds of the model *)

\* longest path, in tokens, of a URL handed to the normaliser on its own
MaxPathLen == 3

\* most audit-engine violations, and most heuristic violations, handed to
\* one call of the aggregator
MaxAxe == 2
MaxCustom == 1

\* most violations of a page and most nodes of a violation in the screenshot
\* loop, largest max_screenshots_per_page, and the pages processed in a row
MaxShotViolations == 2
MaxShotNodes == 2
MaxShotsCap == 2
MaxShotPages == 2

\* most images of a page handed to check_spacer_images
MaxImages == 2
MaxBatchUrls == 4      \* URLs of a batch
MaxCrawlPages == 2     \* pages one scan of a batch fetches at most

\* largest max_pages and max_depth of a scan request
MaxPagesCap == 4
MaxDepthCap == 2

-----------------------------------------------------------------------------
(* Sequences of tokens *)

\* Python's None (and, for `x or y`, every falsy string): the empty sequence.
\* _normalize_url never returns an empty string: its result holds "://".
None == << >>

\* s[a..b], empty when a > b
Slice(s, a, b) == [k \in 1..(IF b >= a THEN b - a + 1 ELSE 0) |-> s[a + k - 1]]

\* s[a:] of Python, 1-based
From(s, a) == Slice(s, a, Len(s))

\* str.find of a one-character needle: the first position, 0 when absent
Find(s, t) ==
    IF \E i \in 1..Len(s) : s[i] = t
    THEN CHOOSE i \in 1..Len(s) : s[i] = t /\ \A j \in 1..(i - 1) : s[j] # t
    ELSE 0

\* the first position of any token of set T, Len(s) + 1 when there is none
FindAny(s, T) ==
    IF \E i \in 1..Len(s) : s[i] \in T
    THEN CHOOSE i \in 1..Len(s) : s[i] \in T /\ \A j \in 1..(i - 1) : s[j] \notin T
    ELSE Len(s) + 1

\* x in s
InSeq(x, s) == \E k \in 1..Len(s) : s[k] = x

\* str.startswith
StartsWith(s, p) == Len(p) <= Len(s) /\ Slice(s, 1, Len(p)) = p

\* str.rstrip('/')
RECURSIVE RStripSlash(_)
RStripSlash(s) ==
    IF Len(s) > 0 /\ s[Len(s)] = "/" THEN RStripSlash(Slice(s, 1, Len(s) - 1)) ELSE s

\* str.lower on one token
LowerTok(t) ==
    CASE t = "EX"   -> "ex"
      [] t = "SPACER" -> "spacer"
      [] t = "HTTP" -> "http"
      [] OTHER      -> t

\* str.lower
Lower(s) == [k \in 1..Len(s) |-> LowerTok(s[k])]

\* str.replace('www.', ''): every occurrence goes
RemoveWww(s) == SelectSeq(s, LAMBDA t : t # "www.")

\* the delimiter characters of a URL
Delims == {":", "/", "?", "#", "[", "]"}

-----------------------------------------------------------------------------
(* urllib.parse.urlparse, as the crawler calls it *)

\* The scheme: the text before the first ':' when that text is not empty and
\* holds scheme characters only.
HasScheme(url) ==
    LET i == Find(url, ":")
    IN  i >= 2 /\ \A k \in 1..(i - 1) : url[k] \notin Delims

AfterScheme(url) == IF HasScheme(url) THEN From(url, Find(url, ":") + 1) ELSE url

HasNetloc(rest) == StartsWith(rest, <<"/", "/">>)

NetlocEnd(rest) == 2 + FindAny(From(rest, 3), {"/", "?", "#"})

\* the last stage: the query string is split off the path; a netloc with
\* one bracket but not the other raises ValueError
SplitQuery(scheme, netloc, rest, fragment) ==
    [ok       |-> (InSeq("[", netloc) <=> InSeq("]", netloc)),
     scheme   |-> scheme,
     netloc   |-> netloc,
     path     |-> IF Find(rest, "?") > 0 THEN Slice(rest, 1, Find(rest, "?") - 1) ELSE rest,
     query    |-> IF Find(rest, "?") > 0 THEN From(rest, Find(rest, "?") + 1) ELSE << >>,
     fragment |-> fragment]

\* the fragment is split off
SplitFragment(scheme, netloc, rest) ==
    IF Find(rest, "#") > 0
    THEN SplitQuery(scheme, netloc, Slice(rest, 1, Find(rest, "#") - 1),
                    From(rest, Find(rest, "#") + 1))
    ELSE SplitQuery(scheme, netloc, rest, << >>)

\* the netloc is split off what follows "//"
SplitNetloc(scheme, rest) ==
    IF HasNetloc(rest)
    THEN SplitFragment(scheme, Slice(rest, 3, NetlocEnd(rest) - 1), From(rest, NetlocEnd(rest)))
    ELSE SplitFragment(scheme, << >>, rest)

SchemeOf(url) == IF HasScheme(url) THEN Lower(Slice(url, 1, Find(url, ":") - 1)) ELSE << >>

UrlParse(url) == SplitNetloc(SchemeOf(url), AfterScheme(url))

-----------------------------------------------------------------------------
(* AccessibilityCrawler._normalize_url *)

\* a normaliser that keeps the scheme it was given
NormSchemeKept(scheme) == scheme

NormScheme(scheme) ==
    IF scheme \in {<<"http">>, <<"https">>} THEN <<"https">> ELSE scheme

NormNetloc(netloc) ==
    IF StartsWith(Lower(netloc), <<"www.">>) THEN From(Lower(netloc), 2) ELSE Lower(netloc)

NormPath(path) ==
    IF path # << >> /\ path # <<"/">> THEN RStripSlash(path)
    ELSE IF path = << >> THEN <<"/">>
    ELSE path

\* normalized = f"{scheme}://{netloc}{path}", None when urlparse raised
Rebuild(parsed) ==
    IF ~parsed.ok THEN None
    ELSE NormScheme(parsed.scheme) \o <<":", "/", "/">>
             \o NormNetloc(parsed.netloc) \o NormPath(parsed.path)

NormalizeUrl(url) == Rebuild(UrlParse(url))

-----------------------------------------------------------------------------
(* The normaliser on its own: every URL of a bounded set, normalised once  *)
(* and then once more.                                                     *)

SchemePrefixes == {<<"http", ":">>, <<"https", ":">>, <<"HTTP", ":">>, <<"ftp", ":">>, << >>}

Netlocs == {<<"ex">>, <<"EX">>, <<"www.", "ex">>, <<"www.", "www.", "ex">>, <<"[", "ex">>}

RECURSIVE PathsOfLen(_)
PathsOfLen(n) ==
    IF n = 0 THEN {<< >>}
    ELSE IF n = 1 THEN {<<"/">>}
    ELSE {Append(p, t) : p \in PathsOfLen(n - 1), t \in {"/", "a"}}

Paths == UNION {PathsOfLen(n) : n \in 0..MaxPathLen}

Queries == {<< >>, <<"?", "q">>}

Fragments == {<< >>, <<"#", "f">>}

MakeUrl(prefix, netloc, path, query, fragment) ==
    prefix \o <<"/", "/">> \o netloc \o path \o query \o fragment

RawUrls ==
    {MakeUrl(s, h, p, q, f) :
        s \in SchemePrefixes, h \in Netlocs, p \in Paths, q \in Queries, f \in Fragments}

WebPrefixes == {<<"http", ":">>, <<"https", ":">>}

\* what is left of a URL without its "scheme:" and without its query string
\* and fragment (everything from the first '?' or '#' on)
UrlCore(u) == Slice(u, 3, FindAny(u, {"?", "#"}) - 1)

\* u1 and u2 are identical except for the scheme (http or https), the query
\* string and the fragment
SameButSchemeQueryFragment(u1, u2) ==
    /\ \E s \in WebPrefixes : StartsWith(u1, s)
    /\ \E s \in WebPrefixes : StartsWith(u2, s)
    /\ UrlCore(u1) = UrlCore(u2)

\* the URLs that differ from u in the scheme, the query string or the fragment
WebVariants(u) ==
    IF \E s \in WebPrefixes : StartsWith(u, s)
    THEN {s \o UrlCore(u) \o q \o f : s \in WebPrefixes, q \in Queries, f \in Fragments}
    ELSE {}

\* the normaliser is not exercised
NormIdle ==
    /\ n_pc = "idle"
    /\ n_url = None /\ n_url2 = None
    /\ n_out = None /\ n_out2 = None /\ n_again = None

NormInit ==
    /\ n_pc = "in"
    /\ n_url \in RawUrls
    /\ n_url2 \in {n_url} \cup WebVariants(n_url)
    /\ n_out = None
    /\ n_out2 = None
    /\ n_again = None

\* the caller normalises the URLs it was given
NormalizeOnce ==
    /\ n_pc = "in"
    /\ n_out' = NormalizeUrl(n_url)
    /\ n_out2' = NormalizeUrl(n_url2)
    /\ n_pc' = "once"
    /\ UNCHANGED <<n_url, n_url2, n_again>>

\* and normalises the result again, when there is one
NormalizeAgain ==
    /\ n_pc = "once"
    /\ n_out # None
    /\ n_again' = NormalizeUrl(n_out)
    /\ n_pc' = "twice"
    /\ UNCHANGED <<n_url, n_url2, n_out, n_out2>>

\* C5: normalising is idempotent: whenever _normalize_url(u) succeeds,
\* normalising its result again gives the same string.
NormalizeIdempotent == n_pc = "twice" => n_again = n_out

\* C6: two URLs identical except for the scheme (http or https) and for
\* their query string and fragment normalise to the same result.
NormalizeIgnoresSchemeQueryFragment ==
    (n_pc # "in" /\ SameButSchemeQueryFragment(n_url, n_url2)) => n_out = n_out2

\* C6's case: an http URL with a query and an https URL of the same host and
\* path without one, both normalised to one string.
NormalizeVariantsWitness ==
    /\ n_pc = "once"
    /\ SameButSchemeQueryFragment(n_url, n_url2)
    /\ Head(n_url) = "http" /\ Head(n_url2) = "https"
    /\ Find(n_url, "?") > 0 /\ Find(n_url2, "?") = 0
    /\ n_out # None
    /\ n_out = n_out2

-----------------------------------------------------------------------------
(* Violations and check configurations *)

\* ViolationImpact
Impacts == {"critical", "serious", "moderate", "minor"}

\* CheckSeverity
Severities == {"error", "warning", "alert", "disabled"}

\* A check configuration is a dict that may or may not hold the keys
\* 'enabled' and 'severity'; {} (also what check_configs.get(id, {}) gives
\* for an id it does not hold) holds neither.
EmptyConfig == [has_enabled |-> FALSE, enabled |-> TRUE,
                has_severity |-> FALSE, severity |-> "error"]

FullConfigs == {[has_enabled |-> TRUE, enabled |-> e,
                 has_severity |-> TRUE, severity |-> s] : e \in BOOLEAN, s \in Severities}

PartialConfigs ==
    {[has_enabled |-> TRUE, enabled |-> e,
      has_severity |-> FALSE, severity |-> "error"] : e \in BOOLEAN}
    \cup {[has_enabled |-> FALSE, enabled |-> TRUE,
           has_severity |-> TRUE, severity |-> s] : s \in Severities}

\* a violation as the audit engine reports it: a dict, of which the model
\* keeps the rule id and the impact
AxeRaw == {[id |-> "image-alt", impact |-> i] : i \in Impacts}
              \cup {[id |-> "color-contrast", impact |-> "serious"]}

\* a violation as CustomChecker emits it
CustomRaw == {[id |-> "spacer-image-alt", impact |-> "moderate"],
              [id |-> "noscript-element", impact |-> "minor"]}

RECURSIVE SeqsUpTo(_, _)
SeqsUpTo(S, n) ==
    IF n = 0 THEN {<< >>}
    ELSE LET shorter == SeqsUpTo(S, n - 1)
         IN  shorter \cup {Append(q, x) : q \in {r \in shorter : Len(r) = n - 1}, x \in S}

-----------------------------------------------------------------------------
(* ViolationAggregator.aggregate_violations *)

\* self.check_configs.get(check_id, {})
ConfigFor(configs, check_id) ==
    IF check_id \in DOMAIN configs THEN configs[check_id] ELSE EmptyConfig

\* an aggregator that drops nothing
IsDisabledNever(config) == FALSE

\* not config.get('enabled', True)
IsDisabled(config) == ~(IF config.has_enabled THEN config.enabled ELSE TRUE)

\* severity_to_impact.get(severity, <the impact the violation has>)
SeverityToImpact(severity, reported) ==
    CASE severity = "error"   -> "serious"
      [] severity = "warning" -> "moderate"
      [] severity = "alert"   -> "minor"
      [] OTHER                -> reported

\* the body of one loop iteration on a violation that is not skipped: the
\* dict's 'impact' is overwritten in place
Configure(configs, violation) ==
    LET config == ConfigFor(configs, violation.id)
    IN  IF config.has_severity
        THEN [violation EXCEPT !.impact = SeverityToImpact(config.severity, violation.impact)]
        ELSE violation

\* one of the two loops: the list as the loop leaves it (skipped dicts are
\* untouched, the others configured in place) ...
LoopMutates(configs, violations) ==
    [k \in 1..Len(violations) |->
        IF IsDisabled(ConfigFor(configs, violations[k].id))
        THEN violations[k]
        ELSE Configure(configs, violations[k])]

\* ... and what it appended to all_violations
LoopAppends(configs, violations) ==
    SelectSeq(LoopMutates(configs, violations),
              LAMBDA v : ~IsDisabled(ConfigFor(configs, v.id)))

AggregateViolations(configs, axe, custom) ==
    LoopAppends(configs, axe) \o LoopAppends(configs, custom)

-----------------------------------------------------------------------------
(* AccessibilityViolation and its effective_severity *)

\* severity: Optional[str] = None
NoSeverity == "None"

\* AccessibilityViolation(id=violation["id"],
\*                        impact=ViolationImpact(violation.get("impact", "minor")), ...)
ToAccessibilityViolation(violation) ==
    [id |-> violation.id, impact |-> violation.impact, severity |-> NoSeverity]

ImpactToSeverity(impact) ==
    CASE impact = "critical" -> "error"
      [] impact = "serious"  -> "error"
      [] impact = "moderate" -> "warning"
      [] impact = "minor"    -> "alert"
      [] OTHER               -> "warning"

EffectiveSeverity(v) ==
    IF v.severity # NoSeverity THEN v.severity ELSE ImpactToSeverity(v.impact)

-----------------------------------------------------------------------------
(* The aggregator on its own: every configuration and every pair of lists  *)
(* of a bounded set.                                                       *)

\* the aggregator is not exercised
AggIdle ==
    /\ agg_pc = "idle"
    /\ check_configs = << >>
    /\ axe_violations = << >> /\ custom_violations = << >>
    /\ axe_in = << >> /\ custom_in = << >>
    /\ all_violations = << >>

AggInit ==
    /\ agg_pc = "in"
    /\ \E a \in FullConfigs \cup PartialConfigs \cup {EmptyConfig},
          c \in FullConfigs \cup {EmptyConfig} :
         check_configs = [id \in {"image-alt", "spacer-image-alt"} |->
                             IF id = "image-alt" THEN a ELSE c]
    /\ axe_violations \in SeqsUpTo(AxeRaw, MaxAxe)
    /\ custom_violations \in SeqsUpTo(CustomRaw, MaxCustom)
    /\ axe_in = axe_violations
    /\ custom_in = custom_violations
    /\ all_violations = << >>

Aggregate ==
    /\ agg_pc = "in"
    /\ all_violations' = AggregateViolations(check_configs, axe_violations, custom_violations)
    /\ axe_violations' = LoopMutates(check_configs, axe_violations)
    /\ custom_violations' = LoopMutates(check_configs, custom_violations)
    /\ agg_pc' = "done"
    /\ UNCHANGED <<check_configs, axe_in, custom_in>>

\* the caller reads the returned list; nothing changes any more
AggRead ==
    /\ agg_pc = "done"
    /\ agg_pc' = "read"
    /\ UNCHANGED <<check_configs, axe_violations, custom_violations,
                   axe_in, custom_in, all_violations>>


-----------------------------------------------------------------------------
(* CheckConfigRepository: the global table, the per-user override table    *)

\* the checks the global table is seeded with (two of the default checks)
CheckIds == {"image-alt", "spacer-image-alt"}

\* the order in which select(CheckConfiguration) returns the rows
CheckOrder == <<"image-alt", "spacer-image-alt">>

\* a check id no row exists for
UnknownCheck == "no-such-check"

\* the users who own overrides
UserIds == {1, 2}

\* the severities the callers of this model pass in
GivenSeverities == {"warning"}

\* get_default_check_configurations: the rows create_check inserts
DefaultCheck(check_id) ==
    IF check_id = "image-alt"
    THEN [id |-> 1, check_id |-> "image-alt",
          check_name |-> "Images must have alternative text",
          enabled |-> TRUE, severity |-> "error",
          wcag_criterion |-> "1.1.1", wcag_level |-> "A",
          aoda_required |-> TRUE, wcag21_only |-> FALSE,
          check_type |-> "axe",
          help_url |-> "https://dequeuniversity.com/rules/axe/4.4/image-alt"]
    ELSE [id |-> 2, check_id |-> "spacer-image-alt",
          check_name |-> "Decorative spacer images should have empty alt attribute",
          enabled |-> TRUE, severity |-> "error",
          wcag_criterion |-> "1.1.1", wcag_level |-> "A",
          aoda_required |-> TRUE, wcag21_only |-> FALSE,
          check_type |-> "custom",
          help_url |-> "https://www.w3.org/WAI/WCAG21/Understanding/non-text-content.html"]

\* an argument that was not given (enabled=None, severity=None)
NotGiven == "NotGiven"

\* the override rows of one user and one check (scalar_one_or_none expects
\* at most one)
UserCheckRows(rows, user_id, check_id) ==
    {r \in rows : r.user_id = user_id /\ r.check_id = check_id}

\* CheckConfigRepository.update_check: the table afterwards
UpdateCheck(table, check_id, enabled, severity) ==
    IF check_id \notin DOMAIN table THEN table
    ELSE [table EXCEPT ![check_id] =
            [@ EXCEPT !.enabled = IF enabled # NotGiven THEN enabled = "True" ELSE @,
                      !.severity = IF severity # NotGiven THEN severity ELSE @]]

\* CheckConfigRepository.update_user_check: the override table afterwards
\* (unchanged when the call raises ValueError)
UpdateUserCheck(table, rows, user_id, check_id, enabled, severity) ==
    LET found == UserCheckRows(rows, user_id, check_id)
    IN  IF found # {}
        THEN (rows \ found) \cup
                 {[r EXCEPT !.enabled = IF enabled # NotGiven THEN enabled = "True" ELSE @,
                            !.severity = IF severity # NotGiven THEN severity ELSE @]
                     : r \in found}
        ELSE IF check_id \notin DOMAIN table THEN rows
        ELSE rows \cup
                 {[user_id |-> user_id, check_id |-> check_id,
                   enabled |-> IF enabled # NotGiven THEN enabled = "True"
                               ELSE table[check_id].enabled,
                   severity |-> IF severity # NotGiven THEN severity
                                ELSE table[check_id].severity]}

\* CheckConfigRepository.reset_user_check: the override table afterwards
ResetUserCheck(rows, user_id, check_id) == rows \ UserCheckRows(rows, user_id, check_id)

\* CheckConfigRepository.reset_all_user_checks: the override table afterwards
ResetAllUserChecks(rows, user_id) == {r \in rows : r.user_id # user_id}

\* a merge that takes the severity from the global row even under an override
MergedSeverityGlobal(check, override) == check.severity

\* "severity": user_override.severity.value if user_override else check.severity.value
MergedSeverity(check, override) ==
    IF override # {} THEN (CHOOSE r \in override : TRUE).severity ELSE check.severity

\* "enabled": user_override.enabled if user_override else check.enabled
MergedEnabled(check, override) ==
    IF override # {} THEN (CHOOSE r \in override : TRUE).enabled ELSE check.enabled

\* CheckConfigRepository.get_user_checks: one dict per row of the global
\* table, in the table's order
GetUserChecks(table, rows, user_id) ==
    [k \in 1..Len(CheckOrder) |->
        LET check    == table[CheckOrder[k]]
            override == UserCheckRows(rows, user_id, check.check_id)
        IN  [id |-> check.id,
             check_id |-> check.check_id,
             check_name |-> check.check_name,
             enabled |-> MergedEnabled(check, override),
             severity |-> MergedSeverity(check, override),
             wcag_criterion |-> check.wcag_criterion,
             wcag_level |-> check.wcag_level,
             aoda_required |-> check.aoda_required,
             wcag21_only |-> check.wcag21_only,
             check_type |-> check.check_type,
             help_url |-> check.help_url,
             has_user_override |-> override # {}]]

\* the repository is not exercised
CfgIdle ==
    /\ cfg_pc = "idle"
    /\ check_table = << >>
    /\ user_check_table = {}
    /\ cfg_op = "none"
    /\ cfg_user = 0
    /\ cfg_ret = << >>

\* the tables after initialize_default_checks, no override yet
CfgInit ==
    /\ cfg_pc = "open"
    /\ check_table = [c \in CheckIds |-> DefaultCheck(c)]
    /\ user_check_table = {}
    /\ cfg_op = "initialize_default_checks"
    /\ cfg_user = 0
    /\ cfg_ret = << >>

EnabledArgs == {NotGiven, "True", "False"}

SeverityArgs == {NotGiven} \cup GivenSeverities

\* an administrator calls update_check
CallUpdateCheck ==
    /\ cfg_pc = "open"
    /\ \E c \in CheckIds \cup {UnknownCheck}, e \in EnabledArgs, s \in SeverityArgs :
         check_table' = UpdateCheck(check_table, c, e, s)
    /\ cfg_op' = "update_check"
    /\ cfg_user' = 0
    /\ cfg_ret' = << >>
    /\ UNCHANGED <<cfg_pc, user_check_table>>

\* a user calls update_user_check
CallUpdateUserCheck ==
    /\ cfg_pc = "open"
    /\ \E u \in UserIds, c \in CheckIds \cup {UnknownCheck},
          e \in EnabledArgs, s \in SeverityArgs :
         user_check_table' = UpdateUserCheck(check_table, user_check_table, u, c, e, s)
    /\ cfg_op' = "update_user_check"
    /\ cfg_user' = 0
    /\ cfg_ret' = << >>
    /\ UNCHANGED <<cfg_pc, check_table>>

\* a user calls reset_user_check
CallResetUserCheck ==
    /\ cfg_pc = "open"
    /\ \E u \in UserIds, c \in CheckIds \cup {UnknownCheck} :
         user_check_table' = ResetUserCheck(user_check_table, u, c)
    /\ cfg_op' = "reset_user_check"
    /\ cfg_user' = 0
    /\ cfg_ret' = << >>
    /\ UNCHANGED <<cfg_pc, check_table>>

\* a user calls reset_all_user_checks
CallResetAllUserChecks ==
    /\ cfg_pc = "open"
    /\ \E u \in UserIds :
         user_check_table' = ResetAllUserChecks(user_check_table, u)
    /\ cfg_op' = "reset_all_user_checks"
    /\ cfg_user' = 0
    /\ cfg_ret' = << >>
    /\ UNCHANGED <<cfg_pc, check_table>>

\* a user calls get_user_checks
CallGetUserChecks ==
    /\ cfg_pc = "open"
    /\ \E u \in UserIds :
         /\ cfg_ret' = GetUserChecks(check_table, user_check_table, u)
         /\ cfg_user' = u
    /\ cfg_op' = "get_user_checks"
    /\ UNCHANGED <<cfg_pc, check_table, user_check_table>>


-----------------------------------------------------------------------------
(* AccessibilityCrawler: construction *)

\* the URLs scans are requested for (HttpUrl: http or https, with a host)
Seeds == {<<"https", ":", "/", "/", "ex", "/", "docs">>}

\* the href values the anchors of the site's pages hold: the seed with
\* another scheme and a "www.", a root-relative link with a query, a sibling
\* of the seed's directory, and a page of another site
HrefSeed == <<"http", ":", "/", "/", "www.", "ex", "/", "docs", "/">>
HrefChild == <<"/", "docs", "/", "a", "?", "q">>
HrefSibling == <<"https", ":", "/", "/", "ex", "/", "docs", "x">>
HrefOther == <<"https", ":", "/", "/", "org", "/", "docs">>

\* a page of the seed's site outside the seed's directory
HrefAbout == <<"https", ":", "/", "/", "ex", "/", "a">>

\* the anchors of a page, in document order
LinkLists == {<< >>,
              <<HrefSeed>>,
              <<HrefChild, HrefSeed>>,
              <<HrefChild, HrefSibling>>,
              <<HrefSibling, HrefChild, HrefSibling>>,
              <<HrefOther, HrefChild>>,
              <<HrefAbout, HrefChild>>}

\* what the audit engine reports for a page
AxeReports == {<< >>,
               <<[id |-> "image-alt", impact |-> "critical"]>>,
               <<[id |-> "image-alt", impact |-> "critical"],
                 [id |-> "color-contrast", impact |-> "serious"]>>}

\* PageResult.error when there is none
NoError == "None"

\* ScanResult(...) as __init__ builds it
NewScanResult ==
    [page_results |-> << >>, pages_scanned |-> 0, pages_with_violations |-> 0,
     total_violations |-> 0, status |-> "in_progress", end_time |-> "None",
     error_message |-> "None"]

\* normalized_start = _normalize_url(self.start_url) or self.start_url
NormalizedStart(url) == IF NormalizeUrl(url) # None THEN NormalizeUrl(url) ELSE url

\* parsed_start.path.rstrip('/') if parsed_start.path else ''
StartPath(url) == RStripSlash(UrlParse(url).path)

\* the crawler is not exercised
CrawlIdle ==
    /\ c_pc = "idle"
    /\ start_url = None
    /\ max_pages = 0 /\ max_depth = 0
    /\ same_domain_only = FALSE /\ restrict_to_path = FALSE
    /\ domain = << >> /\ start_path = << >>
    /\ visited_urls = {}
    /\ to_visit = << >>
    /\ scan_result = NewScanResult
    /\ scan_depths = << >>
    /\ rediscovered = FALSE
    /\ dropped = FALSE
    /\ browser_usable = TRUE
    /\ fetched = << >>

\* AccessibilityCrawler.__init__ on a valid ScanRequest
CrawlInit ==
    /\ c_pc = "constructed"
    /\ start_url \in Seeds
    /\ max_pages \in 1..MaxPagesCap
    /\ max_depth \in 1..MaxDepthCap
    /\ same_domain_only \in BOOLEAN
    /\ restrict_to_path \in BOOLEAN
    /\ visited_urls = {}
    /\ to_visit = <<[url |-> NormalizedStart(start_url), depth |-> 0]>>
    /\ domain = UrlParse(start_url).netloc
    /\ start_path = StartPath(start_url)
    /\ scan_result = NewScanResult
    /\ scan_depths = << >>
    /\ rediscovered = FALSE
    /\ dropped = FALSE
    /\ browser_usable = TRUE
    /\ fetched = << >>

-----------------------------------------------------------------------------
(* AccessibilityCrawler._should_crawl and link extraction *)

SkipExtensions == {".pdf"}

SkipPatterns == {<<"mailto", ":">>, <<"tel", ":">>, <<"javascript", ":">>, <<"#">>, <<"data", ":">>}

\* the checks of _should_crawl on the parsed URL
Eligible(url, parsed) ==
    /\ parsed.ok
    /\ parsed.scheme \in {<<"http">>, <<"https">>}
    /\ same_domain_only =>
          RemoveWww(Lower(parsed.netloc)) = RemoveWww(Lower(domain))
    /\ (restrict_to_path /\ start_path # << >>) =>
          StartsWith(RStripSlash(parsed.path), start_path)
    /\ ~(parsed.path # << >> /\ parsed.path[Len(parsed.path)] \in SkipExtensions)
    /\ ~\E p \in SkipPatterns : StartsWith(Lower(url), p)

\* a filter that lets every URL through
ShouldCrawlAlways(url) == TRUE

ShouldCrawl(url) == Eligible(url, UrlParse(url))

\* scheme and netloc of the base, then the href
JoinOn(base, href) ==
    IF HasNetloc(href) THEN base.scheme \o <<":">> \o href
    ELSE base.scheme \o <<":", "/", "/">> \o base.netloc \o href

\* urljoin(base_url, href) for an href that is absolute, starts with "//" or
\* starts with "/"
UrlJoin(base_url, href) ==
    IF HasScheme(href) THEN href ELSE JoinOn(UrlParse(base_url), href)

\* if normalized_url and self._should_crawl(normalized_url):
\*     if normalized_url not in links: links.append(normalized_url)
AddLink(links, normalized_url) ==
    IF normalized_url # None /\ ShouldCrawl(normalized_url) /\ ~InSeq(normalized_url, links)
    THEN Append(links, normalized_url)
    ELSE links

\* _extract_links_from_html: the page's content is the list of its hrefs
RECURSIVE ExtractLinks(_, _, _)
ExtractLinks(base_url, hrefs, links) ==
    IF hrefs = << >> THEN links
    ELSE ExtractLinks(base_url, Tail(hrefs),
                      AddLink(links, NormalizeUrl(UrlJoin(base_url, Head(hrefs)))))

ExtractLinksFromHtml(base_url, hrefs) == ExtractLinks(base_url, hrefs, << >>)

-----------------------------------------------------------------------------
(* AccessibilityCrawler._scan_page *)

\* What the browser and the audit engine do with one URL: the page loads
\* and is audited ("ok"), navigation raises ("goto_fails"), or the page
\* loads and the audit engine, or the conversion of its report, raises
\* ("axe_fails": violations holds those converted before it did).
PageBehaviours ==
    {[kind |-> "ok", violations |-> v, hrefs |-> h] :
        v \in AxeReports, h \in LinkLists}
    \cup {[kind |-> "goto_fails", violations |-> << >>, hrefs |-> << >>]}
    \cup {[kind |-> "axe_fails", violations |-> v, hrefs |-> <<HrefChild>>] :
             v \in {w \in AxeReports : Len(w) < 2}}

\* browser.new_page() raises: the exception is caught by _scan_page like
\* any other, page stays None and page_content stays None
NewPageFails == [kind |-> "new_page_fails", violations |-> << >>, hrefs |-> << >>]

\* what can happen to a page: anything while the browser is usable (it
\* may stop being so at this very page), only NewPageFails afterwards
BehavioursOf(usable) == IF usable THEN PageBehaviours \cup {NewPageFails} ELSE {NewPageFails}

\* a _scan_page that swallows the exception without recording it
ScanPageResultSwallowsError(url, behaviour) ==
    [url |-> url, violations |-> << >>, error |-> NoError]

\* the PageResult _scan_page returns: the engine's violations are converted
\* one by one and appended as they are
ScanPageResult(url, behaviour) ==
    [url |-> url,
     violations |-> [k \in 1..Len(behaviour.violations) |->
                        ToAccessibilityViolation(behaviour.violations[k])],
     error |-> IF behaviour.kind = "ok" THEN NoError ELSE behaviour.kind]

\* the page_content _scan_page returns beside it (None when navigation failed)
ScanPageContent(behaviour) ==
    [present |-> behaviour.kind \in {"ok", "axe_fails"}, hrefs |-> behaviour.hrefs]

-----------------------------------------------------------------------------
(* PageResult.violation_count and has_violations *)

\* a count that is one for every page with violations
ViolationCountAsFlag(page_result) == IF page_result.violations # << >> THEN 1 ELSE 0

ViolationCount(page_result) == Len(page_result.violations)

HasViolations(page_result) == ViolationCount(page_result) > 0

-----------------------------------------------------------------------------
(* AccessibilityCrawler.crawl *)

\* a loop that scans one page more than max_pages
LoopContinuesOneMore(queue, visited) == queue # << >> /\ Cardinality(visited) <= max_pages

\* a loop that only stops when the queue is empty
LoopUntilQueueEmpty(queue, visited) == queue # << >>

\* while self.to_visit and len(self.visited_urls) < self.max_pages
LoopContinues(queue, visited) == queue # << >> /\ Cardinality(visited) < max_pages

\* a crawler that forgets which URLs it scanned
MarkVisitedForgets(visited, url) == visited

\* self.visited_urls.add(current_url)
MarkVisited(visited, url) == visited \cup {url}

\* a loop that reads the head of the queue and leaves it in place
PopKeepsHead(queue) == [entry |-> Head(queue), rest |-> queue]

\* a stack: to_visit.pop() takes the newest entry
PopNewest(queue) == [entry |-> queue[Len(queue)], rest |-> Slice(queue, 1, Len(queue) - 1)]

\* current_url, depth = self.to_visit.pop(0)
Pop(queue) == [entry |-> Head(queue), rest |-> Tail(queue)]

QueuedUrls(queue) == {queue[k].url : k \in 1..Len(queue)}

\* the for loop over the extracted links
RECURSIVE EnqueueLinks(_, _, _, _)
EnqueueLinks(queue, links, visited, depth) ==
    IF links = << >> THEN queue
    ELSE EnqueueLinks(
            IF Head(links) \notin visited /\ Head(links) \notin QueuedUrls(queue)
            THEN Append(queue, [url |-> Head(links), depth |-> depth + 1])
            ELSE queue,
            Tail(links), visited, depth)

\* async_playwright() and chromium.launch succeed: the loop is entered
Launch ==
    /\ c_pc = "constructed"
    /\ c_pc' = "running"
    /\ UNCHANGED <<start_url, max_pages, max_depth, same_domain_only, restrict_to_path,
                   domain, start_path, visited_urls, to_visit, scan_result,
                   scan_depths, rediscovered,
                   dropped, browser_usable, fetched>>

\* an except branch that throws the partial results away
FailedDropsPages(result, message) ==
    [result EXCEPT !.status = "failed", !.end_time = "now",
                   !.error_message = <<"Error", ": ", message>>,
                   !.page_results = << >>, !.pages_scanned = 0,
                   !.pages_with_violations = 0, !.total_violations = 0]

\* the except branch of crawl: the scan is finalized as failed and the
\* exception is raised again
Failed(result, message) ==
    [result EXCEPT !.status = "failed", !.end_time = "now",
                   !.error_message = <<"Error", ": ", message>>]

\* str(e) of the exceptions that leave crawl's try block
ExceptionTexts == {"browser", ""}

\* they raise
LaunchFails ==
    /\ c_pc = "constructed"
    /\ \E text \in ExceptionTexts : scan_result' = Failed(scan_result, text)
    /\ c_pc' = "raised"
    /\ UNCHANGED <<start_url, max_pages, max_depth, same_domain_only, restrict_to_path,
                   domain, start_path, visited_urls, to_visit, scan_depths, rediscovered,
                   dropped, browser_usable, fetched>>

\* a loop that keeps a PageResult only for a page that was fetched
RecordOnlyFetched(rest, depth, visited, page_result, links) ==
    /\ visited_urls' = visited
    /\ scan_result' =
          IF page_result.error # NoError
          THEN scan_result
          ELSE [scan_result EXCEPT
                  !.page_results = Append(@, page_result),
                  !.pages_scanned = @ + 1,
                  !.pages_with_violations = IF HasViolations(page_result) THEN @ + 1 ELSE @,
                  !.total_violations = @ + ViolationCount(page_result)]
    /\ to_visit' = EnqueueLinks(rest, links, visited, depth)
    /\ scan_depths' = IF page_result.error # NoError THEN scan_depths
                                                     ELSE Append(scan_depths, depth)
    /\ rediscovered' = rediscovered

\* lines 84-101: the PageResult is appended, the totals are updated and the
\* links are enqueued
Record(rest, depth, visited, page_result, links) ==
    /\ visited_urls' = visited
    /\ scan_result' =
          [scan_result EXCEPT
              !.page_results = Append(@, page_result),
              !.pages_scanned = @ + 1,
              !.pages_with_violations = IF HasViolations(page_result) THEN @ + 1 ELSE @,
              !.total_violations = @ + ViolationCount(page_result)]
    /\ to_visit' = EnqueueLinks(rest, links, visited, depth)
    /\ scan_depths' = Append(scan_depths, depth)
    /\ rediscovered' =
          (rediscovered \/ \E k \in 1..Len(links) : links[k] \in visited \cup QueuedUrls(rest))

\* if depth < self.max_depth and not page_result.error and page_content:
\*     links = self._extract_links_from_html(current_url, page_content)
LinksOf(current_url, depth, behaviour) ==
    IF /\ depth < max_depth
       /\ ScanPageResult(current_url, behaviour).error = NoError
       /\ ScanPageContent(behaviour).present
    THEN ExtractLinksFromHtml(current_url, ScanPageContent(behaviour).hrefs)
    ELSE << >>

\* _should_crawl said no to a URL that _normalize_url produced
Rejected(normalized_url) == normalized_url # None /\ ~ShouldCrawl(normalized_url)

\* links were extracted from the page and one of them was rejected
RejectsLink(current_url, depth, behaviour) ==
    /\ depth < max_depth
    /\ behaviour.kind = "ok"
    /\ \E k \in 1..Len(behaviour.hrefs) :
          Rejected(NormalizeUrl(UrlJoin(current_url, behaviour.hrefs[k])))

\* lines 74-101 for the entry popped
Visit(entry, rest) ==
    IF entry.url \in visited_urls \/ entry.depth > max_depth
    THEN /\ to_visit' = rest
         /\ UNCHANGED <<visited_urls, scan_result, scan_depths, rediscovered,
                   dropped, browser_usable, fetched>>
    ELSE \E behaviour \in BehavioursOf(browser_usable) :
            /\ Record(rest, entry.depth, MarkVisited(visited_urls, entry.url),
                      ScanPageResult(entry.url, behaviour),
                      LinksOf(entry.url, entry.depth, behaviour))
            /\ dropped' = (dropped \/ RejectsLink(entry.url, entry.depth, behaviour))
            /\ browser_usable' = (behaviour.kind # "new_page_fails")
            /\ fetched' = Append(fetched, behaviour.kind)

\* one iteration of the while loop, whatever the page does
CrawlIteration ==
    /\ c_pc = "running"
    /\ LoopContinues(to_visit, visited_urls)
    /\ Visit(Pop(to_visit).entry, Pop(to_visit).rest)
    /\ UNCHANGED <<c_pc, start_url, max_pages, max_depth, same_domain_only,
                   restrict_to_path, domain, start_path>>

\* an iteration in which an exception leaves _scan_page (page.close() raises
\* in its finally block): the URL was dequeued and marked, nothing appended
CrawlAborts ==
    /\ c_pc = "running"
    /\ LoopContinues(to_visit, visited_urls)
    /\ Pop(to_visit).entry.url \notin visited_urls
    /\ Pop(to_visit).entry.depth <= max_depth
    /\ to_visit' = Pop(to_visit).rest
    /\ visited_urls' = MarkVisited(visited_urls, Pop(to_visit).entry.url)
    /\ browser_usable
    /\ \E text \in ExceptionTexts : scan_result' = Failed(scan_result, text)
    /\ c_pc' = "raised"
    /\ UNCHANGED <<start_url, max_pages, max_depth, same_domain_only, restrict_to_path,
                   domain, start_path, scan_depths, rediscovered,
                   dropped, browser_usable, fetched>>

\* the loop is left, the browser closes, the scan is finalized as completed
CrawlCompletes ==
    /\ c_pc = "running"
    /\ ~LoopContinues(to_visit, visited_urls)
    /\ scan_result' = [scan_result EXCEPT !.status = "completed", !.end_time = "now"]
    /\ c_pc' = "returned"
    /\ UNCHANGED <<start_url, max_pages, max_depth, same_domain_only, restrict_to_path,
                   domain, start_path, visited_urls, to_visit, scan_depths, rediscovered,
                   dropped, browser_usable, fetched>>

\* run_scan after crawl returned: the result is stored, its status is
\* left as crawl set it
RunScanStores ==
    /\ c_pc = "returned"
    /\ c_pc' = "stored"
    /\ UNCHANGED <<start_url, max_pages, max_depth, same_domain_only, restrict_to_path,
                   domain, start_path, visited_urls, to_visit, scan_result,
                   scan_depths, rediscovered, dropped, browser_usable, fetched>>

\* run_scan's except branch after crawl raised: status, end_time and
\* error_message (now str(e) alone) are written once more
RunScanHandles ==
    /\ c_pc = "raised"
    /\ scan_result' = [scan_result EXCEPT
                          !.status = "failed", !.end_time = "later",
                          !.error_message = <<scan_result.error_message[3]>>]
    /\ c_pc' = "handled"
    /\ UNCHANGED <<start_url, max_pages, max_depth, same_domain_only, restrict_to_path,
                   domain, start_path, visited_urls, to_visit,
                   scan_depths, rediscovered, dropped, browser_usable, fetched>>

-----------------------------------------------------------------------------
(* AccessibilityCrawler._scan_page: screenshots of the violations' nodes *)

\* what happens at a node: it has no "target"; query_selector finds nothing
\* or the capture raises; or the element's screenshot is taken
NodeKinds == {"no_target", "fails", "captured"}

\* a capture loop without the per-page limit
TakesScreenshotUnlimited(node, count, enabled, limit) ==
    enabled /\ node = "captured"

\* the condition of lines 175-177 and the try block: a screenshot is stored
\* on the node
TakesScreenshot(node, count, enabled, limit) ==
    /\ enabled
    /\ count < limit
    /\ node # "no_target"
    /\ node = "captured"

\* the try block was entered and the capture raised
CaptureFails(node, count, enabled, limit) ==
    /\ enabled
    /\ count < limit
    /\ node = "fails"

\* a capture whose exception leaves the loops and reaches _scan_page's outer
\* except branch
AfterNodeAborts(capture_failed) == IF capture_failed THEN "page_error" ELSE "nodes"

\* except Exception as screenshot_error (lines 189-190): the exception is
\* logged and the inner loop goes on with nodes_with_screenshots.append
AfterNode(capture_failed) == "nodes"

\* the nodes of the page that carry a screenshot
CountScreenshots(page_nodes) == Cardinality({k \in 1..Len(page_nodes) : page_nodes[k]})

ShotIdle ==
    /\ shot_pc = "idle"
    /\ enable_screenshots = FALSE
    /\ max_screenshots_per_page = 0
    /\ screenshot_count = 0
    /\ shot_pages = 0
    /\ shot_violations = 0
    /\ shot_nodes = 0
    /\ shot_out = << >>
    /\ shot_capturable = 0
    /\ shot_prev = 0
    /\ shot_failed = FALSE

\* a crawler with its screenshot settings, no page scanned yet
ShotInit ==
    /\ shot_pc = "ready"
    /\ enable_screenshots \in BOOLEAN
    /\ max_screenshots_per_page \in 0..MaxShotsCap
    /\ screenshot_count = 0
    /\ shot_pages = 0
    /\ shot_violations = 0
    /\ shot_nodes = 0
    /\ shot_out = << >>
    /\ shot_capturable = 0
    /\ shot_prev = 0
    /\ shot_failed = FALSE

\* _scan_page reaches line 165 for the next page: screenshot_count = 0
BeginPage ==
    /\ shot_pc \in {"ready", "page_done", "page_error"}
    /\ shot_pages < MaxShotPages
    /\ shot_pages' = shot_pages + 1
    /\ screenshot_count' = 0
    /\ shot_violations' = 0
    /\ shot_nodes' = 0
    /\ shot_prev' = CountScreenshots(shot_out)
    /\ shot_out' = << >>
    /\ shot_capturable' = 0
    /\ shot_failed' = FALSE
    /\ shot_pc' = "violations"
    /\ UNCHANGED <<enable_screenshots, max_screenshots_per_page>>

\* for violation in violations_list: nodes_with_screenshots = []
BeginViolation ==
    /\ shot_pc = "violations"
    /\ shot_violations < MaxShotViolations
    /\ shot_violations' = shot_violations + 1
    /\ shot_nodes' = 0
    /\ shot_pc' = "nodes"
    /\ UNCHANGED <<enable_screenshots, max_screenshots_per_page, screenshot_count,
                   shot_pages, shot_out, shot_capturable, shot_prev, shot_failed>>

\* one pass of the inner loop (lines 171-193) for a node of any kind
ProcessNode ==
    /\ shot_pc = "nodes"
    /\ shot_nodes < MaxShotNodes
    /\ \E node \in NodeKinds :
          /\ IF TakesScreenshot(node, screenshot_count, enable_screenshots,
                                max_screenshots_per_page)
             THEN /\ shot_out' = Append(shot_out, TRUE)
                  /\ screenshot_count' = screenshot_count + 1
             ELSE /\ shot_out' = Append(shot_out, FALSE)
                  /\ screenshot_count' = screenshot_count
          /\ shot_capturable' = shot_capturable + (IF node = "captured" THEN 1 ELSE 0)
          /\ shot_failed' = (shot_failed \/ CaptureFails(node, screenshot_count,
                                   enable_screenshots, max_screenshots_per_page))
          /\ shot_pc' = AfterNode(CaptureFails(node, screenshot_count,
                                   enable_screenshots, max_screenshots_per_page))
    /\ shot_nodes' = shot_nodes + 1
    /\ UNCHANGED <<enable_screenshots, max_screenshots_per_page, shot_pages,
                   shot_violations, shot_prev>>

\* the nodes are done: page_result.violations.append(...)
EndViolation ==
    /\ shot_pc = "nodes"
    /\ shot_pc' = "violations"
    /\ UNCHANGED <<enable_screenshots, max_screenshots_per_page, screenshot_count,
                   shot_pages, shot_violations, shot_nodes, shot_out, shot_capturable,
                   shot_prev, shot_failed>>

\* AccessibilityViolation(...) raises for the violation (ViolationImpact of an
\* impact that is no member, a missing key): the outer except branch sets
\* page_result.error and the rest of the page's violations are not converted
ConversionFails ==
    /\ shot_pc = "nodes"
    /\ shot_pc' = "page_error"
    /\ UNCHANGED <<enable_screenshots, max_screenshots_per_page, screenshot_count,
                   shot_pages, shot_violations, shot_nodes, shot_out, shot_capturable,
                   shot_prev, shot_failed>>

\* the violations are done: _scan_page returns the PageResult
EndPage ==
    /\ shot_pc = "violations"
    /\ shot_pc' = "page_done"
    /\ UNCHANGED <<enable_screenshots, max_screenshots_per_page, screenshot_count,
                   shot_pages, shot_violations, shot_nodes, shot_out, shot_capturable,
                   shot_prev, shot_failed>>

-----------------------------------------------------------------------------
(* CustomChecker.check_spacer_images *)

\* img.get('alt') of an image without an alt attribute
NoAlt == "None"

\* the src values of the images (img.get('src', '') is empty without one)
Srcs == {<<"spacer", ".gif">>, <<"SPACER", ".gif">>, <<"logo", ".png">>, << >>}

Alts == {NoAlt, "", "Company Logo"}

Widths == {"", "1", "100"}

Heights == {"", "1"}

Imgs == [src : Srcs, alt : Alts, width : Widths, height : Heights]

\* spacer_patterns, each a run of characters re.search looks for
SpacerPatterns == {"spacer", "blank", "transparent", "pixel", "1x1", "dot.gif",
                   "clear.gif", "shim"}

\* the for loop over spacer_patterns: at most one reason, then break
NameReasons(src) ==
    IF \E k \in 1..Len(src) : Lower(src)[k] \in SpacerPatterns
    THEN <<"filename">> ELSE << >>

\* if (width == '1' or height == '1') or ...
DimensionReasons(width, height) ==
    IF width = "1" \/ height = "1" THEN <<"1px dimension">> ELSE << >>

\* reasons after both tests; is_spacer is that it is not empty
Reasons(img) == NameReasons(img.src) \o DimensionReasons(img.width, img.height)

\* a check that reports a spacer once for every reason it found
ImageViolationsPerReason(k, img) ==
    IF img.alt # ""
    THEN [r \in 1..Len(Reasons(img)) |->
             [id |-> "spacer-image-alt", impact |-> "moderate", target |-> k,
              reasons |-> <<Reasons(img)[r]>>]]
    ELSE << >>

\* if is_spacer and alt != '': violations.append({...}) for the k-th image
ImageViolations(k, img) ==
    IF Reasons(img) # << >> /\ img.alt # ""
    THEN <<[id |-> "spacer-image-alt", impact |-> "moderate", target |-> k,
            reasons |-> Reasons(img)]>>
    ELSE << >>

\* the for loop over images, from the k-th on
RECURSIVE SpacerLoop(_, _, _)
SpacerLoop(imgs, k, found) ==
    IF k > Len(imgs) THEN found
    ELSE SpacerLoop(imgs, k + 1, found \o ImageViolations(k, imgs[k]))

CheckSpacerImages(imgs) == SpacerLoop(imgs, 1, << >>)

SpacerIdle ==
    /\ sp_pc = "idle"
    /\ images = << >>
    /\ spacer_violations = << >>

\* CustomChecker(html_content, url) on a page with some images
SpacerInit ==
    /\ sp_pc = "in"
    /\ images \in UNION {[1..n -> Imgs] : n \in 0..MaxImages}
    /\ spacer_violations = << >>

\* check_spacer_images is called
CallCheckSpacerImages ==
    /\ sp_pc = "in"
    /\ spacer_violations' = CheckSpacerImages(images)
    /\ sp_pc' = "done"
    /\ UNCHANGED images

-----------------------------------------------------------------------------
(* run_batch_scans, scan_single_url and the batch endpoints                *)

\* max_concurrent = 3  # Maximum concurrent scans
max_concurrent == 3

\* urls[index] is written as index + 1; current_url None as 0
NoUrl == 0

\* batch_scan_status[batch_id] as start_batch_scan initialises it
NewBatchStatus(total) ==
    [total_urls |-> total, completed |-> 0, failed |-> 0, in_progress |-> 0,
     status |-> "running", current_url |-> NoUrl, scan_ids |-> << >>,
     failed_urls |-> << >>, end_time |-> "None"]

\* a task that starts scans whatever the batch's status is
IsCancelledNever(batch) == FALSE

\* if batch_scan_status[batch_id]["status"] == "cancelled":
IsCancelled(batch) == batch.status = "cancelled"

\* a semaphore that admits every task
AcquiresAlways(value, waiting) == TRUE

\* async with semaphore: acquire returns at once when the value is positive
\* and no task waits; a task that had to wait is resumed first in, first out
Acquires(value, waiting) == value > 0 /\ ~waiting

\* the second lock section of scan_single_url
MarkStarted(batch, url) ==
    [batch EXCEPT !.current_url = url, !.in_progress = @ + 1]

\* the lock section after create_scan
MarkCompleted(batch, scan_id) ==
    [batch EXCEPT !.completed = @ + 1, !.in_progress = @ - 1,
                  !.scan_ids = Append(@, scan_id)]

\* an except branch that leaves the URL counted as in progress
MarkFailedKeepsRunning(batch, url) ==
    [batch EXCEPT !.failed = @ + 1, !.failed_urls = Append(@, url)]

\* the lock section of the except branch
MarkFailed(batch, url) ==
    [batch EXCEPT !.failed = @ + 1, !.in_progress = @ - 1,
                  !.failed_urls = Append(@, url)]

\* the lock section after asyncio.gather
MarkFinished(batch) ==
    [batch EXCEPT !.status = IF @ # "cancelled" THEN "completed" ELSE @,
                  !.end_time = "set", !.current_url = NoUrl]

\* cancel_batch_scan for a batch that is running
MarkCancelled(batch) == [batch EXCEPT !.status = "cancelled", !.end_time = "set"]

Urls == DOMAIN b_task

Waiting == {u \in Urls : b_task[u] = "waiting"}

Ended(u) == b_task[u] \in {"completed", "failed", "skipped"}

BatchIdle ==
    /\ b_pc = "idle"
    /\ b_task = << >>
    /\ b_left = << >>
    /\ semaphore = 0
    /\ batch_scan_status = NewBatchStatus(0)
    /\ b_response = "none"
    /\ b_late_fetch = FALSE
    /\ b_cancel_accepted = FALSE

\* start_batch_scan answered and run_batch_scans has created its tasks
BatchInit ==
    /\ b_pc = "running"
    /\ \E total \in 1..MaxBatchUrls :
          /\ b_task = [u \in 1..total |-> "created"]
          /\ b_left = [u \in 1..total |-> 0]
          /\ batch_scan_status = NewBatchStatus(total)
    /\ semaphore = max_concurrent
    /\ b_response = "none"
    /\ b_late_fetch = FALSE
    /\ b_cancel_accepted = FALSE

\* scan_single_url from the semaphore on, up to its first await that
\* suspends: no other task runs between the cancellation test, the
\* increment and the start of the crawl (neither lock section suspends, the
\* lock is never held across an await)
Enter(u, value) ==
    IF IsCancelled(batch_scan_status)
    THEN /\ b_task' = [b_task EXCEPT ![u] = "skipped"]
         /\ semaphore' = value
         /\ UNCHANGED <<b_left, batch_scan_status>>
    ELSE /\ batch_scan_status' = MarkStarted(batch_scan_status, u)
         /\ b_task' = [b_task EXCEPT ![u] = "fetching"]
         /\ \E pages \in 1..MaxCrawlPages : b_left' = [b_left EXCEPT ![u] = pages - 1]
         /\ semaphore' = value - 1

\* the event loop runs a created task for the first time (in the order of
\* the list given to gather)
TaskStarts(u) ==
    /\ b_pc = "running"
    /\ b_task[u] = "created"
    /\ \A v \in Urls : v < u => b_task[v] # "created"
    /\ IF Acquires(semaphore, Waiting # {})
       THEN Enter(u, semaphore)
       ELSE /\ b_task' = [b_task EXCEPT ![u] = "waiting"]
            /\ UNCHANGED <<b_left, semaphore, batch_scan_status>>
    /\ UNCHANGED <<b_pc, b_response, b_late_fetch, b_cancel_accepted>>

\* a release has woken the task that waited longest
TaskResumes(u) ==
    /\ b_task[u] = "waiting"
    /\ \A v \in Waiting : u <= v
    /\ Acquires(semaphore, FALSE)
    /\ Enter(u, semaphore)
    /\ UNCHANGED <<b_pc, b_response, b_late_fetch, b_cancel_accepted>>

\* crawl: await self._scan_page(...) returns, the loop body goes on to the
\* throttling sleep
FetchReturns(u) ==
    /\ b_task[u] = "fetching"
    /\ b_task' = [b_task EXCEPT ![u] = "between"]
    /\ UNCHANGED <<b_pc, b_left, semaphore, batch_scan_status, b_response,
                   b_late_fetch, b_cancel_accepted>>

\* crawl: the while condition holds again, the next URL is popped and
\* fetched; nothing of the batch is read
NextFetch(u) ==
    /\ b_task[u] = "between"
    /\ b_left[u] > 0
    /\ b_left' = [b_left EXCEPT ![u] = @ - 1]
    /\ b_task' = [b_task EXCEPT ![u] = "fetching"]
    /\ b_late_fetch' = (b_late_fetch \/ batch_scan_status.status = "cancelled")
    /\ UNCHANGED <<b_pc, semaphore, batch_scan_status, b_response, b_cancel_accepted>>

\* crawl returns its ScanResult; create_scan is awaited
CrawlReturns(u) ==
    /\ b_task[u] = "between"
    /\ b_left[u] = 0
    /\ b_task' = [b_task EXCEPT ![u] = "saving"]
    /\ UNCHANGED <<b_pc, b_left, semaphore, batch_scan_status, b_response,
                   b_late_fetch, b_cancel_accepted>>

\* create_scan returned: the URL is counted as completed, the semaphore is
\* released
ScanSaved(u) ==
    /\ b_task[u] = "saving"
    /\ batch_scan_status' = MarkCompleted(batch_scan_status, u)
    /\ b_task' = [b_task EXCEPT ![u] = "completed"]
    /\ semaphore' = semaphore + 1
    /\ UNCHANGED <<b_pc, b_left, b_response, b_late_fetch, b_cancel_accepted>>

\* crawl or create_scan raised: the except branch, the semaphore is released
ScanFails(u) ==
    /\ b_task[u] \in {"fetching", "saving"}
    /\ batch_scan_status' = MarkFailed(batch_scan_status, u)
    /\ b_task' = [b_task EXCEPT ![u] = "failed"]
    /\ semaphore' = semaphore + 1
    /\ UNCHANGED <<b_pc, b_left, b_response, b_late_fetch, b_cancel_accepted>>

\* asyncio.gather returned: every task has ended
BatchFinishes ==
    /\ b_pc = "running"
    /\ \A u \in Urls : Ended(u)
    /\ batch_scan_status' = MarkFinished(batch_scan_status)
    /\ b_pc' = "finished"
    /\ UNCHANGED <<b_task, b_left, semaphore, b_response, b_late_fetch,
                   b_cancel_accepted>>

\* POST /batch/{batch_id}/cancel by the batch's owner
CancelBatchScan ==
    /\ IF batch_scan_status.status # "running"
       THEN /\ b_response' = "cancel 400"
            /\ UNCHANGED <<batch_scan_status, b_cancel_accepted>>
       ELSE /\ batch_scan_status' = MarkCancelled(batch_scan_status)
            /\ b_response' = "cancel 200"
            /\ b_cancel_accepted' = TRUE
    /\ UNCHANGED <<b_pc, b_task, b_left, semaphore, b_late_fetch>>

\* GET /batch/{batch_id}/status: a copy of the dict is returned
GetBatchStatus ==
    /\ b_response' = batch_scan_status.status
    /\ UNCHANGED <<b_pc, b_task, b_left, semaphore, batch_scan_status,
                   b_late_fetch, b_cancel_accepted>>

-----------------------------------------------------------------------------
(* URLDiscoverer *)

\* URLDiscoverer._normalize_url: f"{scheme}://{netloc}{path}", without its
\* trailing slashes when the path is longer than "/"; "" when urlparse raised
DiscoverNormalizeUrl(url) ==
    IF ~UrlParse(url).ok THEN None
    ELSE IF UrlParse(url).path # << >> /\ UrlParse(url).path # <<"/">>
         THEN RStripSlash(UrlParse(url).scheme \o <<":", "/", "/">>
                              \o UrlParse(url).netloc \o UrlParse(url).path)
         ELSE UrlParse(url).scheme \o <<":", "/", "/">>
                  \o UrlParse(url).netloc \o UrlParse(url).path

\* netloc.replace('www.', '') if netloc.startswith('www.') else netloc
DomainNormalized(netloc) == IF StartsWith(netloc, <<"www.">>) THEN RemoveWww(netloc) ELSE netloc

\* URLDiscoverer._should_include_url
ShouldIncludeUrl(request, url) ==
    /\ UrlParse(url).ok
    /\ request.same_domain_only =>
          DomainNormalized(UrlParse(url).netloc)
              = DomainNormalized(UrlParse(request.start_url).netloc)
    /\ (request.restrict_to_path /\ StartPath(request.start_url) # << >>) =>
          StartsWith(UrlParse(url).path, StartPath(request.start_url))
    /\ ~(UrlParse(url).path # << >>
           /\ LowerTok(UrlParse(url).path[Len(UrlParse(url).path)]) \in SkipExtensions)

\* URLDiscoverer._extract_links_from_html: every href that is kept, in
\* document order, repeated when the page repeats it
RECURSIVE DiscoverExtractLinks(_, _, _)
DiscoverExtractLinks(request, current_url, hrefs) ==
    IF hrefs = << >> THEN << >>
    ELSE IF \E p \in {<<"javascript", ":">>, <<"mailto", ":">>, <<"tel", ":">>, <<"#">>} :
                StartsWith(Head(hrefs), p)
         THEN DiscoverExtractLinks(request, current_url, Tail(hrefs))
    ELSE IF /\ DiscoverNormalizeUrl(UrlJoin(current_url, Head(hrefs))) # None
            /\ ShouldIncludeUrl(request, DiscoverNormalizeUrl(UrlJoin(current_url, Head(hrefs))))
         THEN <<DiscoverNormalizeUrl(UrlJoin(current_url, Head(hrefs)))>>
                  \o DiscoverExtractLinks(request, current_url, Tail(hrefs))
    ELSE DiscoverExtractLinks(request, current_url, Tail(hrefs))

\* the for loop of lines 112-116: [queue, discovered] after the links
RECURSIVE DiscoverAddLinks(_, _, _, _, _)
DiscoverAddLinks(queue, discovered, links, visited, depth) ==
    IF links = << >> THEN [queue |-> queue, discovered |-> discovered]
    ELSE IF /\ Head(links) \notin visited
            /\ ~InSeq([url |-> Head(links), depth |-> depth + 1], queue)
         THEN DiscoverAddLinks(Append(queue, [url |-> Head(links), depth |-> depth + 1]),
                               discovered \cup {Head(links)}, Tail(links), visited, depth)
    ELSE DiscoverAddLinks(queue, discovered, Tail(links), visited, depth)

NoResult == [discovered_urls |-> {}, total_discovered |-> 0, status |-> "None"]

DiscoverIdle ==
    /\ d_pc = "idle"
    /\ d_request = << >>
    /\ d_to_visit = << >>
    /\ d_visited_urls = {}
    /\ discovered_urls = {}
    /\ d_result = NoResult

\* URLDiscoverer(...) as discover_urls_endpoint builds it, the browser launched
DiscoverInit ==
    /\ d_pc = "running"
    /\ d_request \in [start_url : Seeds, max_depth : 1..MaxDepthCap,
                      max_pages : 1..MaxPagesCap, same_domain_only : BOOLEAN,
                      restrict_to_path : BOOLEAN]
    /\ d_to_visit = <<[url |-> d_request.start_url, depth |-> 0]>>
    /\ d_visited_urls = {}
    /\ discovered_urls = {}
    /\ d_result = NoResult

\* lines 90-124 for the entry popped: the page's fetch raises (hrefs_or_none
\* is None) or gives the page's hrefs
DiscoverVisit(entry, rest, fetch) ==
    /\ d_visited_urls' = d_visited_urls \cup {entry.url}
    /\ IF fetch.ok /\ entry.depth < d_request.max_depth
       THEN /\ d_to_visit' =
                 DiscoverAddLinks(rest,
                     IF entry.depth > 0 THEN discovered_urls \cup {entry.url}
                                        ELSE discovered_urls,
                     DiscoverExtractLinks(d_request, entry.url, fetch.hrefs),
                     d_visited_urls \cup {entry.url}, entry.depth).queue
            /\ discovered_urls' =
                 DiscoverAddLinks(rest,
                     IF entry.depth > 0 THEN discovered_urls \cup {entry.url}
                                        ELSE discovered_urls,
                     DiscoverExtractLinks(d_request, entry.url, fetch.hrefs),
                     d_visited_urls \cup {entry.url}, entry.depth).discovered
       ELSE /\ d_to_visit' = rest
            /\ discovered_urls' = IF entry.depth > 0 THEN discovered_urls \cup {entry.url}
                                                      ELSE discovered_urls

\* one iteration of the while loop of discover
DiscoverIteration ==
    /\ d_pc = "running"
    /\ d_to_visit # << >>
    /\ Cardinality(discovered_urls) < d_request.max_pages
    /\ IF Head(d_to_visit).url \in d_visited_urls
          \/ Head(d_to_visit).depth > d_request.max_depth
       THEN /\ d_to_visit' = Tail(d_to_visit)
            /\ UNCHANGED <<d_visited_urls, discovered_urls>>
       ELSE \E fetch \in {[ok |-> FALSE, hrefs |-> << >>]}
                           \cup {[ok |-> TRUE, hrefs |-> h] : h \in LinkLists} :
               DiscoverVisit(Head(d_to_visit), Tail(d_to_visit), fetch)
    /\ UNCHANGED <<d_pc, d_request, d_result>>

\* the loop is left, the browser closes, the dict is returned
DiscoverReturns ==
    /\ d_pc = "running"
    /\ ~(d_to_visit # << >> /\ Cardinality(discovered_urls) < d_request.max_pages)
    /\ d_result' = [discovered_urls |-> discovered_urls,
                    total_discovered |-> Cardinality(discovered_urls),
                    status |-> "completed"]
    /\ d_pc' = "returned"
    /\ UNCHANGED <<d_request, d_to_visit, d_visited_urls, discovered_urls>>

\* browser.close() raises: discover re-raises, the endpoint answers 500
DiscoverRaises ==
    /\ d_pc = "running"
    /\ ~(d_to_visit # << >> /\ Cardinality(discovered_urls) < d_request.max_pages)
    /\ d_pc' = "raised"
    /\ UNCHANGED <<d_request, d_to_visit, d_visited_urls, discovered_urls, d_result>>

-----------------------------------------------------------------------------
(* SyncAccessibilityCrawler (its _normalize_url is the one of the           *)
(* asynchronous crawler, line by line)                                      *)

\* str(scan_request.url) of the requests: the seed as it was typed, with or
\* without a trailing slash
SyncSeeds == Seeds \cup {<<"https", ":", "/", "/", "ex", "/", "docs", "/">>}

\* SyncAccessibilityCrawler._should_crawl
SyncShouldCrawl(request, url) ==
    /\ UrlParse(url).ok
    /\ UrlParse(url).scheme \in {<<"http">>, <<"https">>}
    /\ request.same_domain_only =>
          UrlParse(url).netloc = UrlParse(request.start_url).netloc
    /\ (request.restrict_to_path /\ StartPath(request.start_url) # << >>) =>
          StartsWith(RStripSlash(UrlParse(url).path), StartPath(request.start_url))
    /\ ~(UrlParse(url).path # << >>
           /\ LowerTok(UrlParse(url).path[Len(UrlParse(url).path)]) \in SkipExtensions)

\* SyncAccessibilityCrawler._extract_links on a page that loads: every href
\* that is kept, in document order
RECURSIVE SyncExtractLinks(_, _, _)
SyncExtractLinks(request, url, hrefs) ==
    IF hrefs = << >> THEN << >>
    ELSE IF /\ NormalizeUrl(UrlJoin(url, Head(hrefs))) # None
            /\ SyncShouldCrawl(request, NormalizeUrl(UrlJoin(url, Head(hrefs))))
         THEN <<NormalizeUrl(UrlJoin(url, Head(hrefs)))>>
                  \o SyncExtractLinks(request, url, Tail(hrefs))
    ELSE SyncExtractLinks(request, url, Tail(hrefs))

\* for link in links: if link not in self.visited_urls: self.to_visit.append
RECURSIVE SyncEnqueue(_, _, _, _)
SyncEnqueue(queue, links, visited, depth) ==
    IF links = << >> THEN queue
    ELSE SyncEnqueue(IF Head(links) \notin visited
                     THEN Append(queue, [url |-> Head(links), depth |-> depth + 1])
                     ELSE queue,
                     Tail(links), visited, depth)

SyncIdle ==
    /\ s_pc = "idle"
    /\ s_request = << >>
    /\ s_to_visit = << >>
    /\ s_visited_urls = {}
    /\ s_page_results = << >>

\* SyncAccessibilityCrawler(scan_request), the browser launched
SyncInit ==
    /\ s_pc = "running"
    /\ s_request \in [start_url : SyncSeeds, max_depth : 1..MaxDepthCap,
                      max_pages : 1..MaxPagesCap, same_domain_only : BOOLEAN,
                      restrict_to_path : BOOLEAN]
    /\ s_to_visit = <<[url |-> s_request.start_url, depth |-> 0]>>
    /\ s_visited_urls = {}
    /\ s_page_results = << >>

\* what the two page loads of an iteration do: _scan_page fails or not, then
\* _extract_links finds the page's hrefs or fails (and returns no link)
SyncPageBehaviours ==
    {[error |-> TRUE, hrefs |-> << >>]}
    \cup {[error |-> FALSE, hrefs |-> h] : h \in LinkLists}

\* one iteration of the while loop of crawl
SyncIteration ==
    /\ s_pc = "running"
    /\ s_to_visit # << >>
    /\ Cardinality(s_visited_urls) < s_request.max_pages
    /\ IF Head(s_to_visit).url \in s_visited_urls
          \/ Head(s_to_visit).depth > s_request.max_depth
       THEN /\ s_to_visit' = Tail(s_to_visit)
            /\ UNCHANGED <<s_visited_urls, s_page_results>>
       ELSE \E page \in SyncPageBehaviours :
               /\ s_visited_urls' = s_visited_urls \cup {Head(s_to_visit).url}
               /\ s_page_results' = Append(s_page_results,
                                           [url |-> Head(s_to_visit).url,
                                            error |-> page.error])
               /\ s_to_visit' =
                     IF Head(s_to_visit).depth < s_request.max_depth /\ ~page.error
                     THEN SyncEnqueue(Tail(s_to_visit),
                                      SyncExtractLinks(s_request, Head(s_to_visit).url,
                                                       page.hrefs),
                                      s_visited_urls \cup {Head(s_to_visit).url},
                                      Head(s_to_visit).depth)
                     ELSE Tail(s_to_visit)
    /\ UNCHANGED <<s_pc, s_request>>

\* the loop is left and the browser closes, or browser.close() raises
SyncCrawlEnds ==
    /\ s_pc = "running"
    /\ ~(s_to_visit # << >> /\ Cardinality(s_visited_urls) < s_request.max_pages)
    /\ s_pc' \in {"returned", "raised"}
    /\ UNCHANGED <<s_request, s_to_visit, s_visited_urls, s_page_results>>

\* no service is exercised
ServiceIdle == BatchIdle /\ DiscoverIdle /\ SyncIdle

\* neither part is exercised
PageIdle == ShotIdle /\ SpacerIdle /\ ServiceIdle

NormNext ==
    \/ NormalizeOnce /\ UNCHANGED <<aggVars, cfgVars, crawlVars, pageVars>>
    \/ NormalizeAgain /\ UNCHANGED <<aggVars, cfgVars, crawlVars, pageVars>>

InitNorm == PageIdle /\ NormInit /\ AggIdle /\ CfgIdle /\ CrawlIdle

SpecNorm == InitNorm /\ [][NormNext]_vars

AggNext ==
    \/ Aggregate /\ UNCHANGED <<normVars, cfgVars, crawlVars, pageVars>>
    \/ AggRead /\ UNCHANGED <<normVars, cfgVars, crawlVars, pageVars>>

InitAgg == PageIdle /\ AggInit /\ NormIdle /\ CfgIdle /\ CrawlIdle

SpecAgg == InitAgg /\ [][AggNext]_vars

\* the rule of violation v has a configuration with enabled=false
ConfiguredOff(v) ==
    LET config == ConfigFor(check_configs, v.id)
    IN  config.has_enabled /\ ~config.enabled

\* C7: no violation whose rule id maps to a configuration with
\* enabled=false is in the list aggregate_violations returns.
DisabledNeverReturned ==
    agg_pc \in {"done", "read"} =>
        \A k \in 1..Len(all_violations) : ~ConfiguredOff(all_violations[k])

\* C7's case: the audit engine and a heuristic check each reported a rule
\* that is configured off, another violation was kept, and the call returned.
DisabledDroppedWitness ==
    /\ agg_pc = "done"
    /\ \E k \in 1..Len(axe_in) : ConfiguredOff(axe_in[k])
    /\ \E k \in 1..Len(custom_in) : ConfiguredOff(custom_in[k])
    /\ Len(all_violations) > 0

\* C9: a kept violation whose rule is configured enabled with severity s is
\* classified s by effective_severity, whatever impact was reported.
KeptClassifiedAsConfigured ==
    agg_pc \in {"done", "read"} =>
        \A k \in 1..Len(all_violations) :
            LET config == ConfigFor(check_configs, all_violations[k].id)
            IN  (config.has_enabled /\ config.enabled /\ config.has_severity)
                    => EffectiveSeverity(ToAccessibilityViolation(all_violations[k]))
                           = config.severity

\* C26: aggregate_violations leaves the records it was given as they were:
\* after the call both input lists hold the same fields and values, "impact"
\* included, as before it.
InputsLeftUnchanged ==
    agg_pc \in {"done", "read"} =>
        /\ axe_violations = axe_in
        /\ custom_violations = custom_in

CfgNext ==
    \/ CallUpdateCheck /\ UNCHANGED <<normVars, aggVars, crawlVars, pageVars>>
    \/ CallUpdateUserCheck /\ UNCHANGED <<normVars, aggVars, crawlVars, pageVars>>
    \/ CallResetUserCheck /\ UNCHANGED <<normVars, aggVars, crawlVars, pageVars>>
    \/ CallResetAllUserChecks /\ UNCHANGED <<normVars, aggVars, crawlVars, pageVars>>
    \/ CallGetUserChecks /\ UNCHANGED <<normVars, aggVars, crawlVars, pageVars>>

InitCfg == PageIdle /\ CfgInit /\ NormIdle /\ AggIdle /\ CrawlIdle

SpecCfg == InitCfg /\ [][CfgNext]_vars

\* the metadata fields of a row of the global table or of a returned dict
Metadata(d) ==
    [id |-> d.id, check_id |-> d.check_id, check_name |-> d.check_name,
     wcag_criterion |-> d.wcag_criterion, wcag_level |-> d.wcag_level,
     aoda_required |-> d.aoda_required, wcag21_only |-> d.wcag21_only,
     check_type |-> d.check_type, help_url |-> d.help_url]

\* C10: what get_user_checks(user) returns holds one entry per row of the
\* global table; its enabled and severity are those of the user's override
\* row when there is one and those of the global row otherwise, and its
\* metadata is the global row's.
UserChecksMerged ==
    cfg_op = "get_user_checks" =>
        /\ Len(cfg_ret) = Cardinality(DOMAIN check_table)
        /\ \A c \in DOMAIN check_table :
             \E k \in 1..Len(cfg_ret) :
                /\ cfg_ret[k].check_id = c
                /\ Metadata(cfg_ret[k]) = Metadata(check_table[c])
                /\ \A r \in user_check_table :
                     (r.user_id = cfg_user /\ r.check_id = c)
                         => (cfg_ret[k].enabled = r.enabled /\ cfg_ret[k].severity = r.severity)
                /\ (~\E r \in user_check_table : r.user_id = cfg_user /\ r.check_id = c)
                         => /\ cfg_ret[k].enabled = check_table[c].enabled
                            /\ cfg_ret[k].severity = check_table[c].severity

\* C10's case: the user overrode one check, the global row of that check was
\* changed afterwards and differs from the override in both fields, another
\* user holds a different override, and get_user_checks returned.
UserChecksMergedWitness ==
    /\ cfg_op = "get_user_checks"
    /\ cfg_user = 1
    /\ \E r \in user_check_table :
         /\ r.user_id = 1 /\ r.check_id = "image-alt"
         /\ r.enabled # check_table["image-alt"].enabled
         /\ r.severity # check_table["image-alt"].severity
         /\ check_table["image-alt"] # DefaultCheck("image-alt")
         /\ cfg_ret[1].enabled = r.enabled /\ cfg_ret[1].severity = r.severity
    /\ \E r \in user_check_table : r.user_id = 2 /\ r.check_id = "image-alt"
    /\ UserCheckRows(user_check_table, 1, "spacer-image-alt") = {}
    /\ cfg_ret[2].severity = check_table["spacer-image-alt"].severity

\* the user the scan runs for
ScanUser == 1

\* the check-configuration store while a scan runs: the seeded global table,
\* and an override by which the scanning user disabled a check
CrawlCfgInit ==
    /\ cfg_pc = "idle"
    /\ check_table = [c \in CheckIds |-> DefaultCheck(c)]
    /\ user_check_table = {[user_id |-> ScanUser, check_id |-> "image-alt",
                             enabled |-> FALSE, severity |-> "error"]}
    /\ cfg_op = "none"
    /\ cfg_user = 0
    /\ cfg_ret = << >>

CrawlNext ==
    \/ Launch /\ UNCHANGED <<normVars, aggVars, cfgVars, pageVars>>
    \/ LaunchFails /\ UNCHANGED <<normVars, aggVars, cfgVars, pageVars>>
    \/ CrawlIteration /\ UNCHANGED <<normVars, aggVars, cfgVars, pageVars>>
    \/ CrawlAborts /\ UNCHANGED <<normVars, aggVars, cfgVars, pageVars>>
    \/ CrawlCompletes /\ UNCHANGED <<normVars, aggVars, cfgVars, pageVars>>
    \/ RunScanStores /\ UNCHANGED <<normVars, aggVars, cfgVars, pageVars>>
    \/ RunScanHandles /\ UNCHANGED <<normVars, aggVars, cfgVars, pageVars>>

Init == CrawlInit /\ CrawlCfgInit /\ NormIdle /\ AggIdle /\ PageIdle

Next == CrawlNext

Spec == Init /\ [][Next]_vars

PageResults == scan_result.page_results

\* C1: no two PageResults of a scan hold the same (normalised) URL.
NoPageScannedTwice ==
    \A i, j \in 1..Len(PageResults) : i # j => PageResults[i].url # PageResults[j].url

\* C1's case: a scan of several pages in which a link to an already visited
\* or queued URL was extracted, and which ran to its end.
NoPageScannedTwiceWitness ==
    /\ c_pc = "returned"
    /\ rediscovered
    /\ Len(PageResults) >= 3

\* C2: pages are scanned in breadth-first order: the seed at depth 0, and no
\* page before a page of smaller depth.
BreadthFirstOrder ==
    /\ Len(scan_depths) > 0 => scan_depths[1] = 0
    /\ \A i, j \in 1..Len(scan_depths) : i < j => scan_depths[i] <= scan_depths[j]

\* C2's case: two pages of depth 1 were scanned, then a page of depth 2.
BreadthFirstOrderWitness ==
    /\ Len(scan_depths) = 4
    /\ scan_depths = <<0, 1, 1, 2>>
    /\ Len(PageResults) = 4

\* C3: never more PageResults than max_pages, never a page deeper than
\* max_depth.
BudgetsRespected ==
    /\ Len(PageResults) <= max_pages
    /\ Len(scan_depths) = Len(PageResults)
    /\ \A i \in 1..Len(scan_depths) : scan_depths[i] <= max_depth

\* C3's case: the page budget is used up with URLs still queued, and a page
\* at the depth limit was scanned.
BudgetsRespectedWitness ==
    /\ c_pc = "returned"
    /\ Len(PageResults) = max_pages
    /\ max_pages > 1
    /\ to_visit # << >>
    /\ \E i \in 1..Len(scan_depths) : scan_depths[i] = max_depth

RECURSIVE SumViolations(_)
SumViolations(pages) ==
    IF pages = << >> THEN 0 ELSE Len(Head(pages).violations) + SumViolations(Tail(pages))

\* C4: total_violations is the sum of the pages' violation counts and
\* pages_with_violations the number of pages with a violation, after every
\* page and when the scan is finalized.
TotalsMatchPages ==
    /\ scan_result.total_violations = SumViolations(PageResults)
    /\ scan_result.pages_with_violations =
          Cardinality({k \in 1..Len(PageResults) : PageResults[k].violations # << >>})
    /\ scan_result.pages_scanned = Len(PageResults)

\* C4's case: a finalized scan with a page of two violations, a page of one,
\* and a page that failed.
TotalsMatchPagesWitness ==
    /\ scan_result.status \in {"completed", "failed"}
    /\ \E k \in 1..Len(PageResults) : Len(PageResults[k].violations) = 2
    /\ \E k \in 1..Len(PageResults) : Len(PageResults[k].violations) = 1
    /\ \E k \in 1..Len(PageResults) : PageResults[k].error # NoError
    /\ scan_result.total_violations = 3

\* the check's configuration as resolved for the scanning user: enabled
\* unless the store holds a row that says otherwise
ResolvedEnabled(check_id) ==
    \A k \in 1..Len(CheckOrder) :
        LET resolved == GetUserChecks(check_table, user_check_table, ScanUser)[k]
        IN  resolved.check_id = check_id => resolved.enabled

\* C8: no PageResult of a scan holds a violation of a rule that resolves to
\* enabled=false for the scanning user.
PagesHoldNoDisabledRule ==
    \A p \in 1..Len(PageResults) :
        \A k \in 1..Len(PageResults[p].violations) :
            ResolvedEnabled(PageResults[p].violations[k].id)

\* the scan's policy read on a parsed URL: scheme, host, path prefix,
\* extension
PolicyAdmits(parsed) ==
    /\ parsed.scheme \in {<<"http">>, <<"https">>}
    /\ same_domain_only => RemoveWww(Lower(parsed.netloc)) = RemoveWww(Lower(domain))
    /\ restrict_to_path => StartsWith(parsed.path, start_path)
    /\ \A k \in 1..Len(parsed.path) : parsed.path[k] \notin SkipExtensions

\* C11: every URL placed in the queue other than the seed (whether it is
\* still queued or was dequeued and scanned since) has an http/https scheme,
\* the seed's host (every "www." removed) when same_domain_only, a path that
\* starts with the seed's path when restrict_to_path, and no skipped
\* extension.
QueuedSatisfyFilter ==
    /\ \A k \in 1..Len(to_visit) :
          to_visit[k].depth > 0 => PolicyAdmits(UrlParse(to_visit[k].url))
    /\ \A k \in 1..Len(PageResults) :
          scan_depths[k] > 0 => PolicyAdmits(UrlParse(PageResults[k].url))

\* C11's case: restricted to the seed's path /docs, the seed page links to
\* /a and to /docs/a, and only /docs/a is queued.
QueuedSatisfyFilterWitness ==
    /\ restrict_to_path /\ ~same_domain_only
    /\ Len(PageResults) = 1
    /\ dropped
    /\ to_visit = <<[url |-> <<"https", ":", "/", "/", "ex", "/", "docs", "/", "a">>,
                     depth |-> 1]>>

\* the part of a path after the prefix p is empty or begins a new segment
UnderPath(path, p) ==
    /\ StartsWith(path, p)
    /\ Len(path) > Len(p) => path[Len(p) + 1] = "/"

\* C12: with restrict_to_path and a seed path P that is not empty, every
\* scanned page's path is P or lies below P (P, then "/").
ScannedUnderStartPath ==
    (restrict_to_path /\ start_path # << >>) =>
        \A k \in 1..Len(PageResults) :
            UnderPath(UrlParse(PageResults[k].url).path, start_path)

\* crawl has returned to run_scan
Returned == c_pc \in {"returned", "stored"}

NavigationFailed ==
    /\ Len(fetched') = Len(fetched) + 1
    /\ fetched'[Len(fetched')] = "goto_fails"

\* what such an iteration does to the scan
NavigationFailureStep ==
    NavigationFailed =>
        /\ Len(PageResults') = Len(PageResults) + 1
        /\ PageResults'[Len(PageResults')].url = Head(to_visit).url
        /\ PageResults'[Len(PageResults')].error # NoError
        /\ scan_result'.pages_scanned = scan_result.pages_scanned + 1
        /\ scan_result'.total_violations = scan_result.total_violations
        /\ to_visit' = Tail(to_visit)
        /\ scan_result'.status = scan_result.status
        /\ scan_result'.status # "failed"
        /\ c_pc' = "running"

\* a scan whose seed could not be navigated to, after crawl returned
SeedNavigationFailed == Returned /\ Len(fetched) >= 1 /\ fetched[1] = "goto_fails"

\* C14: a navigation failure appends one PageResult with an error, counts
\* the page, enqueues nothing, leaves the status alone and the loop running;
\* when it is the seed that fails, the scan ends completed with
\* pages_scanned = 1 and total_violations = 0.
NavigationFailureRecorded ==
    /\ [](SeedNavigationFailed =>
            /\ scan_result.pages_scanned = 1
            /\ scan_result.total_violations = 0
            /\ scan_result.status = "completed")
    /\ [][NavigationFailureStep]_vars

\* C14's case: the second page's navigation failed, a third page was
\* scanned after it, and the scan ended completed.
NavigationFailureRecordedWitness ==
    /\ Returned
    /\ Len(fetched) >= 3
    /\ fetched[2] = "goto_fails"
    /\ PageResults[2].error # NoError
    /\ fetched[3] = "ok"
    /\ scan_result.status = "completed"

\* C15: a PageResult that carries an error has no violations.
ErroredPagesHaveNoViolations ==
    \A k \in 1..Len(PageResults) :
        PageResults[k].error # NoError => PageResults[k].violations = << >>

Finalized == scan_result.status \in {"completed", "failed"}

\* C16: the status is not completed or failed before dequeuing has started,
\* and a status of completed or failed never changes.
StatusLifecycle ==
    /\ [](Finalized => visited_urls # {})
    /\ [][Finalized => scan_result'.status = scan_result.status]_vars

\* f"{type(e).__name__}: {str(e)}" and str(e) as strings: empty when every
\* part is
IsEmptyMessage(message) == \A k \in 1..Len(message) : message[k] = ""

\* the step in which crawl's except branch finalizes the scan
CrawlFails == scan_result.status # "failed" /\ scan_result'.status = "failed"

\* what that step keeps and sets
CrawlFailsStep ==
    CrawlFails =>
        /\ scan_result'.page_results = scan_result.page_results
        /\ scan_result'.pages_scanned = scan_result.pages_scanned
        /\ scan_result'.pages_with_violations = scan_result.pages_with_violations
        /\ scan_result'.total_violations = scan_result.total_violations
        /\ scan_result'.end_time # "None"
        /\ scan_result'.error_message # "None"
        /\ ~IsEmptyMessage(scan_result'.error_message)
        /\ c_pc' = "raised"

\* after it nothing is dequeued or appended any more
NotRestarted ==
    scan_result.status = "failed" =>
        /\ scan_result'.page_results = scan_result.page_results
        /\ to_visit' = to_visit
        /\ visited_urls' = visited_urls
        /\ c_pc' \in {"raised", "handled"}

\* C17: when crawl ends failed, the PageResults appended so far and the
\* totals are kept, end_time and a non-empty error_message are set, the
\* exception reaches the caller, and nothing is scanned afterwards.
FailedKeepsPartialResults ==
    /\ [](c_pc = "raised" =>
            /\ scan_result.status = "failed"
            /\ scan_result.end_time # "None"
            /\ ~IsEmptyMessage(scan_result.error_message)
            /\ scan_result.pages_scanned = Len(PageResults)
            /\ scan_result.total_violations = SumViolations(PageResults))
    /\ [][CrawlFailsStep /\ NotRestarted]_vars

\* C17's case: crawl raised after two pages, one of them with violations.
FailedKeepsPartialResultsWitness ==
    /\ c_pc = "raised"
    /\ scan_result.status = "failed"
    /\ Len(PageResults) = 2
    /\ scan_result.total_violations > 0

\* the pages at which browser.new_page() raised
NewPageFailures == {k \in 1..Len(fetched) : fetched[k] = "new_page_fails"}

\* C18: once the browser cannot open a page any more, no further URL is
\* dequeued and the scan does not end completed.
EngineFailureStopsCrawl ==
    /\ Cardinality(NewPageFailures) <= 1
    /\ ~browser_usable => scan_result.status # "completed"

InitCrawlFair == Init /\ ~restrict_to_path

SpecCrawlFair == InitCrawlFair /\ [][Next]_vars /\ WF_vars(CrawlNext)

\* crawl has ended and the scan is finalized
CrawlStopped ==
    /\ c_pc \in {"returned", "raised", "stored", "handled"}
    /\ scan_result.status \in {"completed", "failed"}

BatchNext ==
    \/ \E u \in Urls : TaskStarts(u) /\ UNCHANGED <<normVars, aggVars, cfgVars, crawlVars, shotVars, spacerVars, discoverVars, syncVars>>
    \/ \E u \in Urls : TaskResumes(u) /\ UNCHANGED <<normVars, aggVars, cfgVars, crawlVars, shotVars, spacerVars, discoverVars, syncVars>>
    \/ \E u \in Urls : FetchReturns(u) /\ UNCHANGED <<normVars, aggVars, cfgVars, crawlVars, shotVars, spacerVars, discoverVars, syncVars>>
    \/ \E u \in Urls : NextFetch(u) /\ UNCHANGED <<normVars, aggVars, cfgVars, crawlVars, shotVars, spacerVars, discoverVars, syncVars>>
    \/ \E u \in Urls : CrawlReturns(u) /\ UNCHANGED <<normVars, aggVars, cfgVars, crawlVars, shotVars, spacerVars, discoverVars, syncVars>>
    \/ \E u \in Urls : ScanSaved(u) /\ UNCHANGED <<normVars, aggVars, cfgVars, crawlVars, shotVars, spacerVars, discoverVars, syncVars>>
    \/ \E u \in Urls : ScanFails(u) /\ UNCHANGED <<normVars, aggVars, cfgVars, crawlVars, shotVars, spacerVars, discoverVars, syncVars>>
    \/ BatchFinishes /\ UNCHANGED <<normVars, aggVars, cfgVars, crawlVars, shotVars, spacerVars, discoverVars, syncVars>>
    \/ CancelBatchScan /\ UNCHANGED <<normVars, aggVars, cfgVars, crawlVars, shotVars, spacerVars, discoverVars, syncVars>>
    \/ GetBatchStatus /\ UNCHANGED <<normVars, aggVars, cfgVars, crawlVars, shotVars, spacerVars, discoverVars, syncVars>>

InitBatch == BatchInit /\ DiscoverIdle /\ SyncIdle /\ ShotIdle /\ SpacerIdle /\ NormIdle /\ AggIdle /\ CfgIdle /\ CrawlIdle

SpecBatch == InitBatch /\ [][BatchNext]_vars

\* the scans of the batch that are between the increment and the decrement
Running == {u \in Urls : b_task[u] \in {"fetching", "between", "saving"}}

Skipped == {u \in Urls : b_task[u] = "skipped"}

\* C21: after the batch was cancelled, a scan in the middle of its crawl
\* starts no further page fetch.
NoFetchAfterCancel == ~b_late_fetch

\* C27: at most 3 scans of a batch are running at any moment, and in_progress
\* is never below 0 or above 3.
AtMostThreeRunning ==
    /\ Cardinality(Running) <= 3
    /\ batch_scan_status.in_progress = Cardinality(Running)
    /\ batch_scan_status.in_progress >= 0
    /\ batch_scan_status.in_progress <= 3

\* C27's case: a batch of more than 3 URLs with 3 scans running and a URL
\* waiting at the semaphore.
AtMostThreeRunningWitness ==
    /\ batch_scan_status.total_urls > 3
    /\ batch_scan_status.in_progress = 3
    /\ semaphore = 0
    /\ Waiting # {}

\* C28: once the status is cancelled, in_progress is never incremented and
\* no scan of a URL that had not begun is started.
NoStartAfterCancel ==
    [][batch_scan_status.status = "cancelled" =>
          /\ batch_scan_status'.in_progress <= batch_scan_status.in_progress
          /\ \A u \in Urls :
                b_task[u] \in {"created", "waiting"} =>
                    b_task'[u] \in {"created", "waiting", "skipped"}]_vars

\* C28's case: the batch was cancelled while a URL waited at the semaphore
\* behind running scans; that URL was skipped, a scan begun earlier ended.
NoStartAfterCancelWitness ==
    /\ b_pc = "finished"
    /\ batch_scan_status.status = "cancelled"
    /\ batch_scan_status.total_urls > 3
    /\ Skipped # {}
    /\ batch_scan_status.completed > 0

\* C29: completed + failed + in_progress <= total_urls always; when
\* run_batch_scans has finished, in_progress = 0, scan_ids and failed_urls
\* are as long as the counters say, completed + failed = total_urls minus the
\* URLs skipped, and the status is completed unless the batch was cancelled,
\* and cancelled then.
BatchCountersConsistent ==
    /\ batch_scan_status.completed + batch_scan_status.failed
         + batch_scan_status.in_progress <= batch_scan_status.total_urls
    /\ b_pc = "finished" =>
          /\ batch_scan_status.in_progress = 0
          /\ Len(batch_scan_status.scan_ids) = batch_scan_status.completed
          /\ Len(batch_scan_status.failed_urls) = batch_scan_status.failed
          /\ batch_scan_status.completed + batch_scan_status.failed
                = batch_scan_status.total_urls - Cardinality(Skipped)
          /\ batch_scan_status.status =
                (IF b_cancel_accepted THEN "cancelled" ELSE "completed")

\* C29's case: a finished batch with a completed URL, a failed URL and a URL
\* skipped after a cancellation, its status polled at the end.
BatchCountersConsistentWitness ==
    /\ b_pc = "finished"
    /\ batch_scan_status.completed > 0
    /\ batch_scan_status.failed > 0
    /\ Skipped # {}
    /\ b_response = "cancelled"

DiscoverNext ==
    \/ DiscoverIteration /\ UNCHANGED <<normVars, aggVars, cfgVars, crawlVars, shotVars, spacerVars, batchVars, syncVars>>
    \/ DiscoverReturns /\ UNCHANGED <<normVars, aggVars, cfgVars, crawlVars, shotVars, spacerVars, batchVars, syncVars>>
    \/ DiscoverRaises /\ UNCHANGED <<normVars, aggVars, cfgVars, crawlVars, shotVars, spacerVars, batchVars, syncVars>>

InitDiscover == DiscoverInit /\ BatchIdle /\ SyncIdle /\ ShotIdle /\ SpacerIdle /\ NormIdle /\ AggIdle /\ CfgIdle /\ CrawlIdle

SpecDiscover == InitDiscover /\ [][DiscoverNext]_vars

\* C23: the URLs discover returns (total_discovered of them) are never more
\* than max_pages, however many links a page has.
DiscoveredWithinMaxPages ==
    d_pc = "returned" =>
        /\ d_result.total_discovered <= d_request.max_pages
        /\ Cardinality(d_result.discovered_urls) <= d_request.max_pages

SyncNext ==
    \/ SyncIteration /\ UNCHANGED <<normVars, aggVars, cfgVars, crawlVars, shotVars, spacerVars, batchVars, discoverVars>>
    \/ SyncCrawlEnds /\ UNCHANGED <<normVars, aggVars, cfgVars, crawlVars, shotVars, spacerVars, batchVars, discoverVars>>

InitSync == SyncInit /\ BatchIdle /\ DiscoverIdle /\ ShotIdle /\ SpacerIdle /\ NormIdle /\ AggIdle /\ CfgIdle /\ CrawlIdle

SpecSync == InitSync /\ [][SyncNext]_vars

\* C30: no two PageResults of a synchronous crawl, the seed's included, have
\* URLs that _normalize_url maps to the same string.
SyncNoPageScannedTwice ==
    \A i, j \in 1..Len(s_page_results) :
        i # j => NormalizeUrl(s_page_results[i].url) # NormalizeUrl(s_page_results[j].url)

ShotNext ==
    \/ BeginPage /\ UNCHANGED <<normVars, aggVars, cfgVars, crawlVars, spacerVars, serviceVars>>
    \/ BeginViolation /\ UNCHANGED <<normVars, aggVars, cfgVars, crawlVars, spacerVars, serviceVars>>
    \/ ProcessNode /\ UNCHANGED <<normVars, aggVars, cfgVars, crawlVars, spacerVars, serviceVars>>
    \/ EndViolation /\ UNCHANGED <<normVars, aggVars, cfgVars, crawlVars, spacerVars, serviceVars>>
    \/ ConversionFails /\ UNCHANGED <<normVars, aggVars, cfgVars, crawlVars, spacerVars, serviceVars>>
    \/ EndPage /\ UNCHANGED <<normVars, aggVars, cfgVars, crawlVars, spacerVars, serviceVars>>

InitShot == ShotInit /\ SpacerIdle /\ ServiceIdle /\ NormIdle /\ AggIdle /\ CfgIdle /\ CrawlIdle

SpecShot == InitShot /\ [][ShotNext]_vars

\* C19: on every page the nodes that carry a screenshot are at most
\* max_screenshots_per_page, on the page before it too, and there is none
\* when enable_screenshots is false.
ScreenshotsWithinBudget ==
    /\ CountScreenshots(shot_out) <= max_screenshots_per_page
    /\ shot_prev <= max_screenshots_per_page
    /\ ~enable_screenshots => (CountScreenshots(shot_out) = 0 /\ shot_prev = 0)

\* C19's case: two pages in a row used the whole budget, the second one
\* with more capturable nodes than the budget allows.
ScreenshotsWithinBudgetWitness ==
    /\ shot_pc = "page_done"
    /\ enable_screenshots
    /\ shot_pages = 2
    /\ max_screenshots_per_page = 2
    /\ shot_prev = 2
    /\ CountScreenshots(shot_out) = 2
    /\ shot_capturable > 2

\* C25: with screenshots enabled, a capture that fails for one element does
\* not abort the page: the loop over the nodes goes on (no page error), the
\* node is recorded like any other, and a later element is still captured
\* while the budget allows.
ScreenshotFailureTolerated ==
    [][shot_nodes' = shot_nodes + 1 =>
          /\ shot_pc' = "nodes"
          /\ Len(shot_out') = Len(shot_out) + 1
          /\ (/\ shot_failed
              /\ enable_screenshots
              /\ screenshot_count < max_screenshots_per_page
              /\ shot_capturable' = shot_capturable + 1)
                 => /\ shot_out'[Len(shot_out')]
                    /\ screenshot_count' = screenshot_count + 1]_vars

\* C25's case: the capture failed for the first of the page's elements, the
\* second one got its screenshot, both violations were recorded and the page
\* ended without an error.
ScreenshotFailureToleratedWitness ==
    /\ shot_pc = "page_done"
    /\ enable_screenshots
    /\ shot_failed
    /\ shot_violations = 2
    /\ shot_out = <<FALSE, TRUE>>
    /\ shot_capturable = 1

SpacerNext ==
    CallCheckSpacerImages /\ UNCHANGED <<normVars, aggVars, cfgVars, crawlVars, shotVars, serviceVars>>

InitSpacer == SpacerInit /\ ShotIdle /\ ServiceIdle /\ NormIdle /\ AggIdle /\ CfgIdle /\ CrawlIdle

SpecSpacer == InitSpacer /\ [][SpacerNext]_vars

\* an image detected as a spacer: its source has a spacer name (whatever
\* the case of its letters), or its width or height is 1
DetectedAsSpacer(img) ==
    \/ \E k \in 1..Len(img.src) : img.src[k] \in {"spacer", "SPACER"}
    \/ img.width = "1"
    \/ img.height = "1"

\* C20: check_spacer_images returns exactly one violation for each image
\* detected as a spacer whose alt is not the empty string, and none for any
\* other image.
SpacerViolationsExact ==
    sp_pc = "done" =>
        /\ \A k \in 1..Len(images) :
              Cardinality({j \in 1..Len(spacer_violations) : spacer_violations[j].target = k})
                  = IF DetectedAsSpacer(images[k]) /\ images[k].alt # "" THEN 1 ELSE 0
        /\ \A j \in 1..Len(spacer_violations) :
              /\ spacer_violations[j].id = "spacer-image-alt"
              /\ spacer_violations[j].target \in 1..Len(images)

\* C20's case: a spacer by name and by width with alt "Company Logo" gave
\* one violation, a spacer with alt "" gave none.
SpacerViolationsExactWitness ==
    /\ sp_pc = "done"
    /\ Len(images) = 2
    /\ images[1] = [src |-> <<"spacer", ".gif">>, alt |-> "Company Logo",
                    width |-> "1", height |-> ""]
    /\ images[2] = [src |-> <<"spacer", ".gif">>, alt |-> "",
                    width |-> "", height |-> ""]
    /\ Len(spacer_violations) = 1
    /\ spacer_violations[1].target = 1

====
